---------------------------- MODULE Spec2Model ----------------------------
(***************************************************************************)
(* Verification model of the Distraction_Blocker threat-scoring engine:    *)
(* the URL analyzer, the phishing (page) analyzer, the security            *)
(* coordinator with its whitelist and result caches, the Bloom filter and  *)
(* the lexical helpers.                                                    *)
(***************************************************************************)
EXTENDS Integers, Sequences, FiniteSets, TLC

VARIABLES
  \* --- levenshteinDistance harness ---
  lvA, lvB, lvC,          \* the three argument strings
  lvPc,                   \* "init" | "done"
  lvAB, lvBA, lvAA, lvAC, lvBC,  \* results of the calls
  \* --- BloomFilter harness ---
  bf,                     \* the filter object: size, hashCount, bitArray, itemCount
  bfAdded,                \* items added since construction or the last clear()
  bfData,                 \* last value returned by serialize(), or NoData
  bfSource,               \* the filter as it was when bfData was taken
  bfCopy,                 \* last filter returned by deserialize(), or NoFilter
  \* --- the security modules ---
  now,                    \* Date.now()
  securityInitialized,    \* part_003 line 8
  urlData,                \* homoglyphMap, brandDatabase, tldRiskScores, maliciousDomains
  phishingData,           \* phishingPatterns, brandDatabasePhishing
  contentData,            \* adultKeywords, contentFilterSettings
  privacyData,            \* trackerDomains, privacySettings, trackerBloomFilter
  urlAnalysisCache,       \* url -> [result, timestamp]
  pageAnalysisCache,      \* <<url, timestamp>> -> [result, timestamp]
  contentFilterCache,     \* url -> [result, timestamp]
  subdomainDepthLastIndex, \* lastIndex of the global subdomain_depth pattern
  securityWhitelist,      \* part_003 line 9
  securityStats,          \* part_003 lines 10-16
  storage,                \* chrome.storage.local: whitelist and stats
  resultsCreated,         \* result objects the analyzers have built
  calls,                  \* analysis calls made
  analyzerCall,           \* analyzeUrl or analyzePage as the last call ran it
  secCall,                \* the coordinator's return or rejection if the last call was to one
  firstCall,              \* url -> the first call of analyzeUrl in its window
  \* --- single applications of the detectors ---
  pfIn,                   \* the function applied and its arguments
  pfOut,                  \* what it returned, or NoOutput before the call
  \* --- whitelist calls suspended at their await points ---
  wlCalls,                \* the calls made, each with the point it has reached
  storageQueue,           \* chrome.storage.local operations in flight, oldest first
  \* --- the browser's declarativeNetRequest rules ---
  dynamicRules,           \* the tracker rules updateBlockingRules installed last
  \* --- the statistics in memory against those in storage ---
  unsavedCalls,           \* per entry point: its calls since its counters were last stored
  \* --- the focus session of part_005 ---
  sessionStore,           \* chrome.storage.local: the session keys and the emergency code
  unlockCalls,            \* the EMERGENCY_UNLOCK requests, each with the point it has reached
  unlockLog               \* the wrong passwords compared and rejected in the session

levVars == <<lvA, lvB, lvC, lvPc, lvAB, lvBA, lvAA, lvAC, lvBC>>
bloomVars == <<bf, bfAdded, bfData, bfSource, bfCopy>>
secVars == <<now, securityInitialized, urlData, phishingData, contentData, privacyData,
            urlAnalysisCache, pageAnalysisCache, contentFilterCache,
            subdomainDepthLastIndex, securityWhitelist, securityStats, storage,
            resultsCreated, calls, analyzerCall, secCall, firstCall>>
pureVars == <<pfIn, pfOut>>
wlVars == <<wlCalls, storageQueue>>
sessionVars == <<sessionStore, unlockCalls, unlockLog>>
extraVars == <<unsavedCalls, sessionVars>>
vars == <<levVars, bloomVars, secVars, pureVars, wlVars, dynamicRules, extraVars>>
\* what the actions of one part leave alone
nonLevVars == <<bloomVars, secVars, pureVars, wlVars, dynamicRules, extraVars>>
nonBloomVars == <<levVars, secVars, pureVars, wlVars, dynamicRules, extraVars>>
nonSecVars == <<levVars, bloomVars, pureVars, wlVars, dynamicRules, extraVars>>
nonPureVars == <<levVars, bloomVars, secVars, wlVars, dynamicRules, extraVars>>
\* what a whitelist call leaves alone
nonWlVars == <<levVars, bloomVars, pureVars, now, urlAnalysisCache, pageAnalysisCache,
               contentFilterCache, subdomainDepthLastIndex, resultsCreated, calls,
               analyzerCall, secCall, firstCall, dynamicRules, extraVars>>
\* what a call of the privacy shield leaves alone
nonPrivacyVars == <<levVars, bloomVars, wlVars, now, securityInitialized, urlData,
                    phishingData, contentData, urlAnalysisCache, pageAnalysisCache,
                    contentFilterCache, subdomainDepthLastIndex, securityWhitelist,
                    securityStats, resultsCreated, calls, analyzerCall, secCall,
                    firstCall, extraVars>>

(***************************************************************************)
(* Generic helpers on strings (sequences of characters)                    *)
(***************************************************************************)
Min2(x, y) == IF x <= y THEN x ELSE y
Max2(x, y) == IF x >= y THEN x ELSE y

\* All sequences over alphabet A of length 0..n
RECURSIVE SeqsUpTo(_, _)
SeqsUpTo(A, n) ==
  IF n = 0 THEN {<<>>}
  ELSE LET S == SeqsUpTo(A, n - 1)
       IN S \cup {Append(s, c) : s \in {t \in S : Len(t) = n - 1}, c \in A}

(***************************************************************************)
(* JavaScript string methods.  In the analyzers a JavaScript string is a   *)
(* TLA+ string; Len, SubSeq and \o are its length, substring and           *)
(* concatenation.                                                          *)
(***************************************************************************)
\* s.charAt(i - 1): the empty string outside the string
CharAt(s, i) == IF i < 1 \/ i > Len(s) THEN "" ELSE SubSeq(s, i, i)

\* s.startsWith(p, i - 1)
StartsWithAt(s, p, i) ==
  /\ i >= 1
  /\ i + Len(p) - 1 <= Len(s)
  /\ SubSeq(s, i, i + Len(p) - 1) = p

StartsWith(s, p) == StartsWithAt(s, p, 1)
EndsWith(s, p) == StartsWithAt(s, p, Len(s) - Len(p) + 1)
Includes(s, p) == \E i \in 1..(Len(s) - Len(p) + 1) : StartsWithAt(s, p, i)

\* the least and the greatest element of a set of positions, 0 when empty
FirstOf(hits) == IF hits = {} THEN 0 ELSE CHOOSE i \in hits : \A j \in hits : i <= j
LastOf(hits) == IF hits = {} THEN 0 ELSE CHOOSE i \in hits : \A j \in hits : i >= j

\* 1 + s.indexOf(p, from - 1): the first match at or after from, 0 when none
IndexFrom(s, p, from) ==
  FirstOf({i \in from..(Len(s) - Len(p) + 1) : StartsWithAt(s, p, i)})

\* 1 + s.lastIndexOf(p), 0 when none
LastIndexOf(s, p) ==
  LastOf({i \in 1..(Len(s) - Len(p) + 1) : StartsWithAt(s, p, i)})

\* s.slice(i - 1), the characters from position i on
SliceFrom(s, i) == SubSeq(s, i, Len(s))

UpperLetters == "ABCDEFGHIJKLMNOPQRSTUVWXYZ"
LowerLetters == "abcdefghijklmnopqrstuvwxyz"
DigitChars == "0123456789"

IsDigit(c) == Len(c) = 1 /\ Includes(DigitChars, c)
IsLowerLetter(c) == Len(c) = 1 /\ Includes(LowerLetters, c)
IsUpperLetter(c) == Len(c) = 1 /\ Includes(UpperLetters, c)
\* \w of a regular expression
IsWordChar(c) == IsDigit(c) \/ IsLowerLetter(c) \/ IsUpperLetter(c) \/ c = "_"

LowerAt(k, c) == IF k = 0 THEN c ELSE CharAt(LowerLetters, k)
LowerChar(c) == LowerAt(IndexFrom(UpperLetters, c, 1), c)

\* s.toLowerCase(), by halves of the string
RECURSIVE LowerRange(_, _, _)
LowerRange(s, i, j) ==
  IF i > j THEN ""
  ELSE IF i = j THEN LowerChar(CharAt(s, i))
  ELSE LowerRange(s, i, (i + j) \div 2) \o LowerRange(s, (i + j) \div 2 + 1, j)

ToLowerCase(s) == LowerRange(s, 1, Len(s))

\* s.split(sep) for a non-empty separator, as a sequence of strings
RECURSIVE SplitFrom(_, _, _)
SplitAt(s, sep, from, k) ==
  IF k = 0 THEN <<SliceFrom(s, from)>>
  ELSE <<SubSeq(s, from, k - 1)>> \o SplitFrom(s, sep, k + Len(sep))

SplitFrom(s, sep, from) == SplitAt(s, sep, from, IndexFrom(s, sep, from))

Split(s, sep) == SplitFrom(s, sep, 1)

\* parts.join(sep)
RECURSIVE JoinFrom(_, _, _)
JoinFrom(parts, sep, i) ==
  IF i > Len(parts) THEN ""
  ELSE IF i = Len(parts) THEN parts[i]
  ELSE parts[i] \o sep \o JoinFrom(parts, sep, i + 1)

Join(parts, sep) == JoinFrom(parts, sep, 1)

\* s.replace(p, r) for a string pattern: the first occurrence only
ReplaceAt(s, p, r, k) ==
  IF k = 0 THEN s
  ELSE SubSeq(s, 1, k - 1) \o r \o SliceFrom(s, k + Len(p))

ReplaceFirst(s, p, r) == ReplaceAt(s, p, r, IndexFrom(s, p, 1))

\* the characters of s as a sequence, for the lexical helpers
Chars(s) == [i \in 1..Len(s) |-> CharAt(s, i)]

(***************************************************************************)
(* levenshteinDistance (contentFilter.js 511-540)                          *)
(***************************************************************************)
\* One cell of the inner loop, lines 527-535: prev is matrix[i-1], cur is the
\* part of matrix[i] filled so far (cur[j] holds column j-1).
LevCell(prev, cur, a, bch, j) ==
  IF bch = a[j]
    THEN prev[j]                                   \* matrix[i-1][j-1]
    ELSE Min2(Min2(prev[j] + 1,                    \* substitution
                   cur[j] + 1),                    \* insertion
              prev[j + 1] + 1)                     \* deletion

\* matrix[i] for i >= 1: column 0 is i (line 518), the rest by LevCell;
\* cur holds columns 0..j-1, so the row is complete when it has Len(a)+1 cells
RECURSIVE LevRowFill(_, _, _, _, _)
LevRowFill(prev, cur, a, bch, j) ==
  IF Len(cur) > Len(a) THEN cur
  ELSE LevRowFill(prev, Append(cur, LevCell(prev, cur, a, bch, j)), a, bch, j + 1)

\* prev is matrix[i-1], whose column 0 holds i-1: the loop of line 526 ends
\* when that row is matrix[b.length]
RECURSIVE LevRows(_, _, _, _)
LevRows(prev, a, b, i) ==
  IF prev[1] >= Len(b) THEN prev
  ELSE LevRows(LevRowFill(prev, <<i>>, a, b[i], 1), a, b, i + 1)

MutLevEmptyMin(a, b) ==
  IF Len(a) = 0 \/ Len(b) = 0 THEN Min2(Len(a), Len(b))
  ELSE LevRows([j \in 1..(Len(a) + 1) |-> j - 1], a, b, 1)[Len(a) + 1]

levenshteinDistance(a, b) ==
  IF Len(a) = 0 \/ Len(b) = 0 THEN Max2(Len(a), Len(b))     \* line 512
  ELSE LevRows([j \in 1..(Len(a) + 1) |-> j - 1], a, b, 1)[Len(a) + 1]

(***************************************************************************)
(* 32-bit integer arithmetic of JavaScript (Math.imul, ^, <<, >>>), on     *)
(* words held as two 16-bit halves so that no intermediate value exceeds   *)
(* the range of the model checker's integers.                              *)
(***************************************************************************)
RECURSIVE Pow2(_)
Pow2(n) == IF n = 0 THEN 1 ELSE 2 * Pow2(n - 1)

Word(h, l) == [hi |-> h, lo |-> l]

RECURSIVE Xor16(_, _, _)
Xor16(x, y, n) ==
  IF n = 0 THEN 0
  ELSE (((x % 2) + (y % 2)) % 2) + 2 * Xor16(x \div 2, y \div 2, n - 1)

XorW(a, c) == Word(Xor16(a.hi, c.hi, 16), Xor16(a.lo, c.lo, 16))

\* the 32-bit product of two 16-bit numbers
Mul16Carry(p1, t) == Word(((p1 \div 256) + (t \div 65536)) % 65536, t % 65536)
Mul16Sum(p1, p0) == Mul16Carry(p1, (p1 % 256) * 256 + p0)
Mul16(x, y) == Mul16Sum((x \div 256) * y, (x % 256) * y)

\* Math.imul(a, c)
ImulSum(ll, lh, hl) == Word((ll.hi + lh.lo + hl.lo) % 65536, ll.lo)
Imul(a, c) == ImulSum(Mul16(a.lo, c.lo), Mul16(a.lo, c.hi), Mul16(a.hi, c.lo))

\* (a + c) brought back to 32 bits by the next bitwise operator
AddCarry(h, s) == Word((h + (s \div 65536)) % 65536, s % 65536)
AddW(a, c) == AddCarry(a.hi + c.hi, a.lo + c.lo)

\* (w << r) | (w >>> (32 - r)), 0 < r < 16
RotlBy(w, m, p) ==
  Word((w.hi % m) * p + (w.lo \div m), (w.lo % m) * p + (w.hi \div m))
Rotl(w, r) == RotlBy(w, Pow2(16 - r), Pow2(r))

\* w >>> r, 0 < r <= 16
ShrBy(w, p, m) == Word(w.hi \div p, (w.lo \div p) + (w.hi % p) * m)
Shr(w, r) == IF r = 16 THEN Word(0, w.hi) ELSE ShrBy(w, Pow2(r), Pow2(16 - r))

\* Math.abs of the signed 32-bit value of w (at most 2^31)
AbsW(w) ==
  IF w.hi < 32768 THEN w
  ELSE AddW(Word(65535 - w.hi, 65535 - w.lo), Word(0, 1))

\* w % m for the non-negative number w, 0 < m < 2^15
WordMod(w, m) == ((w.hi % m) * (65536 % m) + (w.lo % m)) % m

\* String.charCodeAt for lower-case letters, digits, "." and "-"
CharCodes ==
  [c \in {CharAt(LowerLetters \o DigitChars \o ".-", i) : i \in 1..38} |->
     IF IsLowerLetter(c) THEN 96 + IndexFrom(LowerLetters, c, 1)
     ELSE IF IsDigit(c) THEN 47 + IndexFrom(DigitChars, c, 1)
     ELSE IF c = "." THEN 46 ELSE 45]
charCodeAt(key, i) == CharCodes[key[i]]

(***************************************************************************)
(* class BloomFilter (part_000 506-742)                                    *)
(***************************************************************************)
\* the loop body of _hash, lines 539-547
HashStep(h1, code) ==
  LET k1a == Imul(Word(0, code), Word(52382, 11601))        \* c1 = 0xcc9e2d51
      k1b == Rotl(k1a, 15)
      k1c == Imul(k1b, Word(7047, 13715))                   \* c2 = 0x1b873593
      h1a == XorW(h1, k1c)
      h1b == Rotl(h1a, 13)
  IN AddW(Imul(h1b, Word(0, 5)), Word(58964, 27492))        \* + 0xe6546b64

RECURSIVE HashLoop(_, _, _)
HashLoop(h1, key, i) ==
  IF i > Len(key) \/ h1.hi < 0 THEN h1        \* (h1 is evaluated at every step)
  ELSE HashLoop(HashStep(h1, charCodeAt(key, i)), key, i + 1)

\* _hash(key, seed), lines 533-558; seed and result are words
XorShr(w, r) == XorW(w, Shr(w, r))                        \* h1 ^= h1 >>> r
BloomHash(key, seed) ==
  LET h1a == XorW(HashLoop(seed, key, 1), Word(0, Len(key)))
      h1b == XorShr(h1a, 16)
      h1c == Imul(h1b, Word(34283, 51819))                  \* 0x85ebca6b
      h1d == XorShr(h1c, 13)
      h1e == Imul(h1d, Word(49842, 44597))                  \* 0xc2b2ae35
  IN AbsW(XorShr(h1e, 16))

\* The items the harness adds and probes
BloomItems == SeqsUpTo({"a", "."}, 2)

\* hash1 = _hash(item, 0) and hash2 = _hash(item, hash1), lines 568-569,
\* tabulated once per item
HashPair(item, hash1) == <<hash1, BloomHash(item, hash1)>>
BloomBaseHashes == [item \in BloomItems |-> HashPair(item, BloomHash(item, Word(0, 0)))]

\* _getHashPositions(item), lines 566-577: positions (hash1 + i*hash2) % size
\* for i = 0..hashCount-1, as a sequence
HashPositionsFrom(f, r1, r2) ==
  [k \in 1..f.hashCount |-> (r1 + (k - 1) * r2) % f.size]

getHashPositions(f, item) ==
  HashPositionsFrom(f, WordMod(BloomBaseHashes[item][1], f.size),
                       WordMod(BloomBaseHashes[item][2], f.size))

\* bit bitIndex of a byte
ByteBit(byte, bitIndex) == (byte \div Pow2(bitIndex)) % 2

\* _setBit(position), lines 584-588: bitArray[byteIndex] |= (1 << bitIndex)
MutSetBitAssign(bitArray, position) ==
  [bitArray EXCEPT ![(position \div 8) + 1] = Pow2(position % 8)]

setBit(bitArray, position) ==
  LET byteIndex == position \div 8
      bitIndex == position % 8
  IN [bitArray EXCEPT ![byteIndex + 1] =
        IF ByteBit(@, bitIndex) = 1 THEN @ ELSE @ + Pow2(bitIndex)]

\* _getBit(position), lines 596-600
getBit(bitArray, position) ==
  ByteBit(bitArray[(position \div 8) + 1], position % 8) # 0

RECURSIVE SetBits(_, _, _)
SetBits(bitArray, positions, k) ==
  IF k > Len(positions) THEN bitArray
  ELSE SetBits(setBit(bitArray, positions[k]), positions, k + 1)

\* new BloomFilter(size, hashCount), lines 512-524
NewBloomFilter(size, hashCount) ==
  [size |-> size, hashCount |-> hashCount,
   bitArray |-> [i \in 1..((size + 7) \div 8) |-> 0], itemCount |-> 0]

\* add(item), lines 607-620
BloomAddItem(f, item) ==
  [f EXCEPT !.bitArray = SetBits(f.bitArray, getHashPositions(f, item), 1),
            !.itemCount = f.itemCount + 1]

\* addAll(items), lines 627-632
RECURSIVE BloomAddAllItems(_, _, _)
BloomAddAllItems(f, items, k) ==
  IF k > Len(items) THEN f
  ELSE BloomAddAllItems(BloomAddItem(f, items[k]), items, k + 1)

\* contains(item), lines 639-653
AllBitsSet(bitArray, positions) ==
  \A k \in 1..Len(positions) : getBit(bitArray, positions[k])

BloomContains(f, item) == AllBitsSet(f.bitArray, getHashPositions(f, item))

\* serialize(), lines 721-728
MutSerializeNoCount(f) ==
  [size |-> f.size, hashCount |-> f.hashCount, itemCount |-> 0,
   bitArray |-> f.bitArray]

BloomSerialize(f) ==
  [size |-> f.size, hashCount |-> f.hashCount, itemCount |-> f.itemCount,
   bitArray |-> f.bitArray]

\* BloomFilter.deserialize(data), lines 736-741; new Uint8Array(array) keeps
\* each element modulo 256
BloomDeserialize(data) ==
  [NewBloomFilter(data.size, data.hashCount) EXCEPT
     !.itemCount = data.itemCount,
     !.bitArray = [i \in 1..Len(data.bitArray) |-> data.bitArray[i] % 256]]

(***************************************************************************)
(* new URL(url) without a base, as far as the analyzers use it: whether    *)
(* the string parses, its protocol and its hostname.  The parser follows   *)
(* the URL standard for http:, https: and for schemes without an           *)
(* authority (data:, javascript:); hosts are ASCII names or dotted-decimal *)
(* IPv4 addresses.                                                         *)
(***************************************************************************)
NoUrl == [ok |-> FALSE, protocol |-> "", hostname |-> ""]

IsSchemeChar(c) == IsLowerLetter(c) \/ IsUpperLetter(c) \/ IsDigit(c) \/ c \in {"+", "-", "."}

ValidScheme(sch) ==
  /\ Len(sch) >= 1
  /\ IsLowerLetter(CharAt(sch, 1)) \/ IsUpperLetter(CharAt(sch, 1))
  /\ \A i \in 1..Len(sch) : IsSchemeChar(CharAt(sch, i))

\* number of leading slashes of s from position i
RECURSIVE SlashesFrom(_, _)
SlashesFrom(s, i) ==
  IF i <= Len(s) /\ CharAt(s, i) \in {"/", "\\"} THEN 1 + SlashesFrom(s, i + 1) ELSE 0

\* the position of the first character of s in stops, or Len(s) + 1
RECURSIVE FirstStop(_, _, _)
FirstStop(s, stops, i) ==
  IF i > Len(s) \/ CharAt(s, i) \in stops THEN i ELSE FirstStop(s, stops, i + 1)

\* the authority: everything before the first / \ ? #
AuthorityOf(s) == SubSeq(s, 1, FirstStop(s, {"/", "\\", "?", "#"}, 1) - 1)

\* the authority without userinfo (up to the last @)
AfterUserinfo(auth) == SliceFrom(auth, LastIndexOf(auth, "@") + 1)

AllDigits(t) == \A i \in 1..Len(t) : IsDigit(CharAt(t, i))

\* host and port of host[:port]; the port has to be a number
HostPortAt(hp, k) ==
  IF k = 0 THEN [ok |-> TRUE, host |-> hp]
  ELSE [ok |-> AllDigits(SliceFrom(hp, k + 1)) /\ Len(hp) - k <= 5,
        host |-> SubSeq(hp, 1, k - 1)]

HostPort(hp) == HostPortAt(hp, LastIndexOf(hp, ":"))

IsHostChar(c) == IsLowerLetter(c) \/ IsDigit(c) \/ c \in {"-", ".", "_"}

\* value of a decimal numeral of at most three digits, 256 when longer
RECURSIVE DecimalFrom(_, _, _)
DecimalFrom(t, i, acc) ==
  IF i > Len(t) THEN acc
  ELSE DecimalFrom(t, i + 1, 10 * acc + (IndexFrom(DigitChars, CharAt(t, i), 1) - 1))

DecimalValue(t) == IF Len(t) > 3 THEN 256 ELSE DecimalFrom(t, 1, 0)

\* a host whose last label is a number has to be an IPv4 address
ValidIpv4Labels(labels) ==
  /\ Len(labels) = 4
  /\ \A i \in 1..4 : /\ Len(labels[i]) >= 1
                     /\ AllDigits(labels[i])
                     /\ DecimalValue(labels[i]) <= 255

LastLabelNumeric(labels) ==
  Len(labels[Len(labels)]) >= 1 /\ AllDigits(labels[Len(labels)])

ValidHostLabels(labels) == LastLabelNumeric(labels) => ValidIpv4Labels(labels)

ValidHost(host) ==
  /\ \A i \in 1..Len(host) : IsHostChar(CharAt(host, i))
  /\ ValidHostLabels(Split(host, "."))

\* http: and https: need a non-empty valid host
SpecialHost(protocol, hp) ==
  IF hp.ok /\ Len(hp.host) >= 1 /\ ValidHost(ToLowerCase(hp.host))
  THEN [ok |-> TRUE, protocol |-> protocol, hostname |-> ToLowerCase(hp.host)]
  ELSE NoUrl

\* other schemes: a host only after "//", which may be empty
OtherHost(protocol, hp) ==
  IF hp.ok /\ ValidHost(ToLowerCase(hp.host))
  THEN [ok |-> TRUE, protocol |-> protocol, hostname |-> ToLowerCase(hp.host)]
  ELSE NoUrl

ParseAfterScheme(scheme, rest) ==
  IF scheme \in {"http", "https"}
  THEN SpecialHost(scheme \o ":",
         HostPort(AfterUserinfo(AuthorityOf(SliceFrom(rest, SlashesFrom(rest, 1) + 1)))))
  ELSE IF StartsWith(rest, "//")
  THEN OtherHost(scheme \o ":", HostPort(AfterUserinfo(AuthorityOf(SliceFrom(rest, 3)))))
  ELSE [ok |-> TRUE, protocol |-> scheme \o ":", hostname |-> ""]

ParseAtColon(url, k) ==
  IF k = 0 \/ ~ValidScheme(SubSeq(url, 1, k - 1)) THEN NoUrl
  ELSE ParseAfterScheme(ToLowerCase(SubSeq(url, 1, k - 1)), SliceFrom(url, k + 1))

ParseUrl(url) == ParseAtColon(url, IndexFrom(url, ":", 1))

(***************************************************************************)
(* securityConfig.js                                                       *)
(***************************************************************************)
THRESHOLD_CRITICAL == 90
THRESHOLD_HIGH == 70
THRESHOLD_MEDIUM == 40
THRESHOLD_LOW == 1
CACHE_EXPIRY_URL_ANALYSIS == 300000      \* 5 * 60 * 1000
CACHE_EXPIRY_PAGE_ANALYSIS == 600000     \* 10 * 60 * 1000
TYPOSQUATTING_THRESHOLD == 3
MAX_DOMAIN_LENGTH == 50
Infinity == 1000000                      \* larger than every edit distance

URL_SHORTENERS ==
  <<"bit.ly", "bitly.com", "tinyurl.com", "t.co", "goo.gl",
    "ow.ly", "is.gd", "buff.ly", "adf.ly", "tiny.cc",
    "lnkd.in", "db.tt", "qr.ae", "cur.lv", "ity.im",
    "q.gs", "po.st", "bc.vc", "u.to", "j.mp",
    "v.gd", "x.co", "shorte.st", "tr.im", "link.zip.net",
    "cutt.ly", "rb.gy", "shorturl.at", "trib.al", "clicky.me",
    "bl.ink", "s.id", "t.ly", "rebrand.ly", "short.io">>

DEFAULT_CONTENT_SETTINGS ==
  [adult    |-> [enabled |-> TRUE,  strictness |-> "high"],
   gambling |-> [enabled |-> FALSE, strictness |-> "medium"],
   violence |-> [enabled |-> FALSE, strictness |-> "medium"],
   drugs    |-> [enabled |-> FALSE, strictness |-> "low"],
   piracy   |-> [enabled |-> FALSE, strictness |-> "low"]]

DEFAULT_PRIVACY_SETTINGS ==
  [blockTrackers |-> TRUE, cleanUrls |-> TRUE,
   trackerCategories |-> [analytics |-> TRUE, advertising |-> TRUE,
                          social |-> FALSE, fingerprinting |-> TRUE]]

(***************************************************************************)
(* Reference data (data/*.json), a small data set in the documented shape. *)
(* Every score of the data is non-negative.  HomoglyphA stands for the     *)
(* Cyrillic letter U+0430, which cannot be written in a module.            *)
(***************************************************************************)
HomoglyphA == "~"

HomoglyphMapData ==
  [cyrillicToLatin |-> <<[char |-> HomoglyphA, latin |-> "a"]>>,
   greekToLatin |-> <<>>,
   specialCharacters |-> <<>>,
   numberLetterSubstitutions |-> <<[char |-> "0", lookalike |-> "O"],
                                   [char |-> "1", lookalike |-> "l"]>>]

BrandDatabaseData ==
  [brands |-> <<[name |-> "PayPal", keywords |-> <<"paypal">>,
                 legitimateDomains |-> <<"paypal.com", "*.paypal.com">>,
                 priority |-> "critical"],
                [name |-> "Dropbox", keywords |-> <<"dropbox">>,
                 legitimateDomains |-> <<"dropbox.com">>,
                 priority |-> "high"]>>]

TldRiskScoresData ==
  [highRisk |-> [tlds |-> <<".tk", ".ml">>, score |-> 25, reason |-> "high"],
   mediumRisk |-> [tlds |-> <<".xyz">>, score |-> 15, reason |-> "medium"],
   lowRisk |-> [tlds |-> <<".com", ".org">>, score |-> 0, reason |-> "low"],
   specialPurpose |-> <<[tld |-> ".onion", score |-> 30, reason |-> "onion"]>>,
   countryTlds |-> <<[level |-> "low", tlds |-> <<".ru">>, score |-> 10]>>]

MaliciousDomainsData ==
  [phishing |-> <<"evil.tk">>,
   malware |-> <<"bad.org">>,
   scam |-> <<"evil.tk">>,
   patterns |-> <<[pattern |-> "free.*gift", type |-> "scam", score |-> 60]>>]

(***************************************************************************)
(* new RegExp(pattern).test(s) for the patterns the reference data uses:   *)
(* literal characters, "." (any character) and a starred atom.             *)
(***************************************************************************)
AtomMatches(atom, c) == atom = "." \/ atom = c

\* the atom matches every character of s from si to si + k - 1
StarRun(atom, s, si, k) ==
  /\ si + k - 1 <= Len(s)
  /\ \A j \in si..(si + k - 1) : AtomMatches(atom, CharAt(s, j))

RECURSIVE RegexMatchAt(_, _, _, _)
RegexMatchAt(pat, pi, s, si) ==
  IF pi > Len(pat) THEN TRUE
  ELSE IF pi < Len(pat) /\ CharAt(pat, pi + 1) = "*"
  THEN \E k \in 0..(Len(s) - si + 1) :
         /\ StarRun(CharAt(pat, pi), s, si, k)
         /\ RegexMatchAt(pat, pi + 2, s, si + k)
  ELSE /\ si <= Len(s)
       /\ AtomMatches(CharAt(pat, pi), CharAt(s, si))
       /\ RegexMatchAt(pat, pi + 1, s, si + 1)

RegexTest(pat, s) == \E si \in 1..(Len(s) + 1) : RegexMatchAt(pat, 1, s, si)

\* legit.replace(/\*/g, '.*')
StarToDotStar(legit) == Join(Split(legit, "*"), ".*")

\* the legitimate-domain test shared by the brand checks
IsLegitimateDomain(brand, domain) ==
  \E i \in 1..Len(brand.legitimateDomains) :
    IF Includes(brand.legitimateDomains[i], "*")
    THEN RegexTest(StarToDotStar(brand.legitimateDomains[i]), domain)
    ELSE \/ domain = brand.legitimateDomains[i]
         \/ EndsWith(domain, "." \o brand.legitimateDomains[i])

(***************************************************************************)
(* URL analyzer detectors (contentFilter.js 566-941).  Each detector is    *)
(* written over the reference data it reads, Null while it is not loaded.  *)
(* Flags are records of type and score; the detail text is left out.       *)
(***************************************************************************)
Null == [null |-> TRUE]

\* detectHomograph, lines 585-624: the map entries whose character occurs
RECURSIVE HomoglyphsFound(_, _, _, _)
HomoglyphsFound(entries, type, domain, i) ==
  IF i > Len(entries) THEN <<>>
  ELSE (IF Includes(domain, entries[i].char)
        THEN <<[original |-> entries[i].char, type |-> type]>>
        ELSE <<>>) \o HomoglyphsFound(entries, type, domain, i + 1)

\* normalized.split(char).join(replacement) for every entry that occurs
RECURSIVE NormalizeLatin(_, _, _)
NormalizeLatin(entries, str, i) ==
  IF i > Len(entries) THEN str
  ELSE NormalizeLatin(entries, Join(Split(str, entries[i].char), entries[i].latin), i + 1)

RECURSIVE NormalizeLookalike(_, _, _)
NormalizeLookalike(entries, str, i) ==
  IF i > Len(entries) THEN str
  ELSE NormalizeLookalike(entries,
         Join(Split(str, entries[i].char), entries[i].lookalike), i + 1)

\* lines 631-633: some legitimate domain of some brand includes letterVariant
VariantIsBrandDomain(brands, letterVariant) ==
  /\ brands # Null
  /\ \E b \in 1..Len(brands.brands) :
       \E d \in 1..Len(brands.brands[b].legitimateDomains) :
         Includes(brands.brands[b].legitimateDomains[d], letterVariant)

\* lines 627-641: number substitutions, flagged only for a brand look-alike
RECURSIVE NumberSubstitutions(_, _, _, _)
NumberSubstitutions(entries, brands, domain, i) ==
  IF i > Len(entries) THEN <<>>
  ELSE (IF /\ Includes(domain, entries[i].char)
           /\ VariantIsBrandDomain(brands,
                ReplaceFirst(domain, entries[i].char, ToLowerCase(entries[i].lookalike)))
        THEN <<[original |-> entries[i].char, type |-> "number_substitution"]>>
        ELSE <<>>) \o NumberSubstitutions(entries, brands, domain, i + 1)

NoHomograph(domain) ==
  [hasHomograph |-> FALSE, homoglyphs |-> <<>>, normalizedDomain |-> domain, score |-> 0]

\* lines 643-651
HomographResult(domain, found, normalized) ==
  IF Len(found) > 0
  THEN [hasHomograph |-> TRUE, homoglyphs |-> found, normalizedDomain |-> normalized,
        score |-> Min2(Len(found) * 15, 45)]
  ELSE NoHomograph(domain)

DetectHomographWith(map, brands, domain) ==
  IF map = Null \/ domain = "" THEN NoHomograph(domain)
  ELSE HomographResult(domain,
         HomoglyphsFound(map.cyrillicToLatin, "cyrillic", domain, 1)
           \o HomoglyphsFound(map.greekToLatin, "greek", domain, 1)
           \o HomoglyphsFound(map.specialCharacters, "special", domain, 1)
           \o NumberSubstitutions(map.numberLetterSubstitutions, brands, domain, 1),
         NormalizeLookalike(map.specialCharacters,
           NormalizeLatin(map.greekToLatin,
             NormalizeLatin(map.cyrillicToLatin, domain, 1), 1), 1))

\* detectTyposquatting, lines 659-707
NoTyposquatting ==
  [isTyposquatting |-> FALSE, targetBrand |-> "null", distance |-> Infinity,
   matchedDomain |-> "null", priority |-> "undefined", score |-> 0]

\* lines 671-672: domain.split('.').slice(0, -1).join('.')
DomainWithoutTld(domain) ==
  Join(SubSeq(Split(domain, "."), 1, Len(Split(domain, ".")) - 1), ".")

\* the match of lines 682-702 with the closer match tracked before the
\* legitimate-domain test is made
MutTypoMatchLegitCounts(res, brand, keyword, domain, distance) ==
  IF distance <= TYPOSQUATTING_THRESHOLD /\ distance < res.distance
  THEN IF IsLegitimateDomain(brand, domain)
       THEN [res EXCEPT !.distance = distance]
       ELSE [isTyposquatting |-> TRUE, targetBrand |-> brand.name, distance |-> distance,
             matchedDomain |-> keyword, priority |-> brand.priority,
             score |-> (TYPOSQUATTING_THRESHOLD - distance + 1) * 20]
  ELSE res

\* lines 682-702, for a keyword that the domain does not contain
TypoMatch(res, brand, keyword, domain, distance) ==
  IF /\ distance <= TYPOSQUATTING_THRESHOLD
     /\ distance < res.distance
     /\ ~IsLegitimateDomain(brand, domain)
  THEN [isTyposquatting |-> TRUE, targetBrand |-> brand.name, distance |-> distance,
        matchedDomain |-> keyword, priority |-> brand.priority,
        score |-> (TYPOSQUATTING_THRESHOLD - distance + 1) * 20]
  ELSE res

\* lines 676-703, one keyword
TypoKeyword(res, brand, keyword, domain, dwt) ==
  IF Includes(dwt, keyword) THEN res
  ELSE TypoMatch(res, brand, keyword, domain,
                 levenshteinDistance(Chars(dwt), Chars(keyword)))

RECURSIVE TypoKeywords(_, _, _, _, _)
TypoKeywords(res, brand, k, domain, dwt) ==
  IF k > Len(brand.keywords) THEN res
  ELSE TypoKeywords(TypoKeyword(res, brand, brand.keywords[k], domain, dwt),
                    brand, k + 1, domain, dwt)

RECURSIVE TypoBrands(_, _, _, _, _)
TypoBrands(res, brands, b, domain, dwt) ==
  IF b > Len(brands) THEN res
  ELSE TypoBrands(TypoKeywords(res, brands[b], 1, domain, dwt), brands, b + 1, domain, dwt)

DetectTyposquattingWith(brands, domain) ==
  IF brands = Null \/ domain = "" THEN NoTyposquatting
  ELSE TypoBrands(NoTyposquatting, brands.brands, 1, domain, DomainWithoutTld(domain))

\* SUSPICIOUS_PATTERNS (securityConfig.js 72-83), type and score in order
SUSPICIOUS_PATTERNS ==
  <<[type |-> "ip_address", score |-> 25],
    [type |-> "multiple_hyphens", score |-> 10],
    [type |-> "executable", score |-> 35],
    [type |-> "sensitive_keywords", score |-> 10],
    [type |-> "subdomain_depth", score |-> 5],
    [type |-> "at_symbol", score |-> 20],
    [type |-> "free_tld", score |-> 25],
    [type |-> "encoded_chars", score |-> 5],
    [type |-> "data_uri", score |-> 40],
    [type |-> "javascript_uri", score |-> 45]>>

\* \d{1,3} from position i, then "." and the next group, four groups in all
RECURSIVE IpGroups(_, _, _)
IpGroups(s, i, g) ==
  \E k \in 1..3 :
    /\ i + k - 1 <= Len(s)
    /\ AllDigits(SubSeq(s, i, i + k - 1))
    /\ \/ g = 4
       \/ CharAt(s, i + k) = "." /\ IpGroups(s, i + k + 1, g + 1)

\* /\..*\./g keeps its lastIndex between calls: the search starts there, a
\* match runs from the first dot found to the last dot of the string and
\* leaves lastIndex behind it; a failed search resets lastIndex to 0
SubdomainDepthEnd(s, lastIndex) ==
  IF /\ IndexFrom(s, ".", lastIndex + 1) > 0
     /\ LastIndexOf(s, ".") > IndexFrom(s, ".", lastIndex + 1)
  THEN LastIndexOf(s, ".")
  ELSE 0

\* regex.test(fullUrl) for the pattern of the given type
PatternMatches(type, s, lastIndex) ==
  CASE type = "ip_address" ->
         \/ StartsWith(s, "http://") /\ IpGroups(s, 8, 1)
         \/ StartsWith(s, "https://") /\ IpGroups(s, 9, 1)
    [] type = "multiple_hyphens" -> Includes(s, "--")
    [] type = "executable" ->
         \E e \in {".exe", ".msi", ".bat", ".cmd", ".ps1", ".vbs", ".js", ".jar",
                   ".scr", ".pif"} : EndsWith(s, e)
    [] type = "sensitive_keywords" ->
         \E w \in {"login", "signin", "account", "secure", "verify", "update",
                   "confirm"} : Includes(s, w)
    [] type = "subdomain_depth" -> SubdomainDepthEnd(s, lastIndex) > 0
    [] type = "at_symbol" -> Includes(s, "@")
    [] type = "free_tld" ->
         \E e \in {".tk", ".ml", ".ga", ".cf", ".gq"} : EndsWith(s, e)
    [] type = "encoded_chars" ->
         \E i \in 1..(Len(s) - 2) :
           /\ CharAt(s, i) = "%"
           /\ \A j \in {i + 1, i + 2} :
                IsDigit(CharAt(s, j)) \/ Includes("abcdefABCDEF", CharAt(s, j))
    [] type = "data_uri" -> Includes(s, "data:")
    [] type = "javascript_uri" -> Includes(s, "javascript:")

\* lines 728-741
RECURSIVE ConfiguredPatterns(_, _, _)
ConfiguredPatterns(s, lastIndex, i) ==
  IF i > Len(SUSPICIOUS_PATTERNS) THEN <<>>
  ELSE (IF PatternMatches(SUSPICIOUS_PATTERNS[i].type, s, lastIndex)
        THEN <<SUSPICIOUS_PATTERNS[i]>> ELSE <<>>)
       \o ConfiguredPatterns(s, lastIndex, i + 1)

\* calculateEntropy(str) > ENTROPY_THRESHOLD (lines 547-564, 765-766).  The
\* entropy of a string is at most log2 of its number of distinct characters,
\* and equals log2 of its length when no character repeats; the hostnames
\* analysed here fall in one of the two cases.
HighEntropy(str) ==
  /\ Cardinality({CharAt(str, i) : i \in 1..Len(str)}) > 16
  /\ Cardinality({CharAt(str, i) : i \in 1..Len(str)}) = Len(str)

\* lines 743-773
HostnameShapeFlags(hostname) ==
  (IF Len(hostname) > MAX_DOMAIN_LENGTH
   THEN <<[type |-> "long_domain", score |-> 15]>> ELSE <<>>)
  \o (IF Len(Split(hostname, ".")) - 2 > 3
      THEN <<[type |-> "excessive_subdomains",
              score |-> (Len(Split(hostname, ".")) - 2) * 5]>>
      ELSE <<>>)
  \o (IF HighEntropy(Join(Split(hostname, "."), ""))
      THEN <<[type |-> "high_entropy", score |-> 10]>> ELSE <<>>)

\* lines 776-799: one flag for every keyword of every brand
RECURSIVE BrandKeywordMisuse(_, _, _, _)
BrandKeywordMisuse(brands, hostname, b, k) ==
  IF b > Len(brands) THEN <<>>
  ELSE IF k > Len(brands[b].keywords) THEN BrandKeywordMisuse(brands, hostname, b + 1, 1)
  ELSE (IF /\ Includes(hostname, brands[b].keywords[k])
           /\ ~IsLegitimateDomain(brands[b], hostname)
        THEN <<[type |-> "brand_keyword_misuse",
                score |-> IF brands[b].priority = "critical" THEN 30 ELSE 20]>>
        ELSE <<>>)
       \o BrandKeywordMisuse(brands, hostname, b, k + 1)

RECURSIVE SumScores(_, _)
SumScores(flags, i) ==
  IF i > Len(flags) THEN 0 ELSE flags[i].score + SumScores(flags, i + 1)

PatternsResult(found, lastIndex) ==
  [suspiciousPatterns |-> found, totalScore |-> SumScores(found, 1),
   lastIndex |-> lastIndex]

\* analyzeSuspiciousPatterns, lines 714-806; lastIndex is the state of the
\* subdomain_depth pattern before the call, the result carries it after
AnalyzeSuspiciousPatternsWith(brands, url, lastIndex) ==
  IF url = "" \/ ~ParseUrl(url).ok THEN PatternsResult(<<>>, lastIndex)
  ELSE PatternsResult(
         ConfiguredPatterns(ToLowerCase(url), lastIndex, 1)
           \o HostnameShapeFlags(ParseUrl(url).hostname)
           \o (IF brands = Null THEN <<>>
               ELSE BrandKeywordMisuse(brands.brands, ParseUrl(url).hostname, 1, 1)),
         SubdomainDepthEnd(ToLowerCase(url), lastIndex))

\* assessTldRisk, lines 813-869
RECURSIVE TldEntryScore(_, _, _, _)
TldEntryScore(entries, tld, i, otherwise) ==
  IF i > Len(entries) THEN otherwise
  ELSE IF (IF "tld" \in DOMAIN entries[i] THEN tld = entries[i].tld
           ELSE \E j \in 1..Len(entries[i].tlds) : entries[i].tlds[j] = tld)
  THEN entries[i].score
  ELSE TldEntryScore(entries, tld, i + 1, otherwise)

AssessTldRiskWith(scores, tld) ==
  IF scores = Null \/ tld = "" THEN 0
  ELSE TldEntryScore(<<scores.highRisk, scores.mediumRisk>> \o scores.specialPurpose
                       \o scores.countryTlds \o <<scores.lowRisk>>,
                     ToLowerCase(tld), 1, 0)

\* isUrlShortener, lines 876-897: the score
isUrlShortener(domain) ==
  IF /\ domain # ""
     /\ \E i \in 1..Len(URL_SHORTENERS) :
          \/ ToLowerCase(domain) = URL_SHORTENERS[i]
          \/ EndsWith(ToLowerCase(domain), "." \o URL_SHORTENERS[i])
  THEN 15 ELSE 0

\* new RegExp(pattern) throws for a quantifier with nothing to repeat
RegexValid(pat) ==
  \A i \in 1..Len(pat) :
    CharAt(pat, i) = "*" => (i > 1 /\ CharAt(pat, i - 1) # "*")

NotMalicious == [isMalicious |-> FALSE, type |-> "null", score |-> 0]

\* lines 925-938: the first pattern that compiles and matches
RECURSIVE MaliciousPatternScore(_, _, _)
MaliciousPatternScore(patterns, domain, i) ==
  IF i > Len(patterns) THEN NotMalicious
  ELSE IF RegexValid(patterns[i].pattern) /\ RegexTest(patterns[i].pattern, domain)
  THEN [isMalicious |-> TRUE, type |-> patterns[i].type, score |-> patterns[i].score]
  ELSE MaliciousPatternScore(patterns, domain, i + 1)

\* lines 915-922: the first of the three lists that includes the domain
RECURSIVE MaliciousListMatch(_, _, _, _)
MaliciousListMatch(data, types, domain, i) ==
  IF i > Len(types) THEN NotMalicious
  ELSE IF \E k \in 1..Len(data[types[i]]) : data[types[i]][k] = domain
  THEN [isMalicious |-> TRUE, type |-> types[i], score |-> 100]
  ELSE MaliciousListMatch(data, types, domain, i + 1)

\* lines 925-938 before lines 915-922
MutCheckMaliciousPatternsFirst(data, domain) ==
  IF data = Null \/ domain = "" THEN NotMalicious
  ELSE IF MaliciousPatternScore(data.patterns, ToLowerCase(domain), 1).isMalicious
  THEN MaliciousPatternScore(data.patterns, ToLowerCase(domain), 1)
  ELSE MaliciousListMatch(data, <<"phishing", "malware", "scam">>, ToLowerCase(domain), 1)

\* checkMaliciousDomain, lines 904-941
CheckMaliciousDomainWith(data, domain) ==
  IF data = Null \/ domain = "" THEN NotMalicious
  ELSE IF MaliciousListMatch(data, <<"phishing", "malware", "scam">>,
                             ToLowerCase(domain), 1).isMalicious
  THEN MaliciousListMatch(data, <<"phishing", "malware", "scam">>, ToLowerCase(domain), 1)
  ELSE MaliciousPatternScore(data.patterns, ToLowerCase(domain), 1)

(***************************************************************************)
(* analyzeUrl (contentFilter.js 949-1080) without its cache: the result    *)
(* built from a URL, the loaded reference data and the regex state.        *)
(***************************************************************************)
\* the reference data of the URL analyzer before and after initUrlAnalyzer
UrlDataUnloaded ==
  [homoglyphMap |-> Null, brandDatabase |-> Null, tldRiskScores |-> Null,
   maliciousDomains |-> Null]
UrlDataLoaded ==
  [homoglyphMap |-> HomoglyphMapData, brandDatabase |-> BrandDatabaseData,
   tldRiskScores |-> TldRiskScoresData, maliciousDomains |-> MaliciousDomainsData]

FlagWhen(present, type, score) ==
  IF present THEN <<[type |-> type, score |-> score]>> ELSE <<>>

\* line 976: '.' + hostname.split('.').pop()
TldOf(hostname) == "." \o Split(hostname, ".")[Len(Split(hostname, "."))]

\* lines 979-1037: the flags in the order they are pushed
UrlFlagsOf(homograph, typosquatting, patterns, tldScore, shortenerScore, malicious) ==
  FlagWhen(homograph.hasHomograph, "homograph", homograph.score)
  \o FlagWhen(typosquatting.isTyposquatting, "typosquatting", typosquatting.score)
  \o patterns.suspiciousPatterns
  \o FlagWhen(tldScore > 0, "risky_tld", tldScore)
  \o FlagWhen(shortenerScore > 0, "url_shortener", shortenerScore)
  \o FlagWhen(malicious.isMalicious, "malicious_domain", malicious.score)

\* lines 979-1037: what the detectors add to threatScore, each under the
\* condition that pushes its flags
DetectorScoreSum(homograph, typosquatting, patterns, tldScore, shortenerScore, malicious) ==
  (IF homograph.hasHomograph THEN homograph.score ELSE 0)
  + (IF typosquatting.isTyposquatting THEN typosquatting.score ELSE 0)
  + (IF Len(patterns.suspiciousPatterns) > 0 THEN patterns.totalScore ELSE 0)
  + (IF tldScore > 0 THEN tldScore ELSE 0)
  + (IF shortenerScore > 0 THEN shortenerScore ELSE 0)
  + (IF malicious.isMalicious THEN malicious.score ELSE 0)

\* lines 979-1037 without the cap of line 1040
MutUrlScoreUncapped(homograph, typosquatting, patterns, tldScore, shortenerScore, malicious) ==
  DetectorScoreSum(homograph, typosquatting, patterns, tldScore, shortenerScore, malicious)

\* lines 979-1040: the sum of the detector scores, capped at 100
UrlThreatScore(homograph, typosquatting, patterns, tldScore, shortenerScore, malicious) ==
  Min2(DetectorScoreSum(homograph, typosquatting, patterns, tldScore, shortenerScore,
                        malicious), 100)

\* lines 1043-1055
UrlThreatLevel(score) ==
  IF score >= THRESHOLD_CRITICAL THEN "CRITICAL"
  ELSE IF score >= THRESHOLD_HIGH THEN "HIGH"
  ELSE IF score >= THRESHOLD_MEDIUM THEN "MEDIUM"
  ELSE IF score >= THRESHOLD_LOW THEN "LOW"
  ELSE "NONE"

UrlRecommendation(score) ==
  IF score >= THRESHOLD_HIGH THEN "BLOCK"
  ELSE IF score >= THRESHOLD_MEDIUM THEN "WARN"
  ELSE "ALLOW"

UrlResult(url, flags, score, time, id) ==
  [url |-> url, threatScore |-> score, threatLevel |-> UrlThreatLevel(score),
   flags |-> flags, recommendation |-> UrlRecommendation(score),
   timestamp |-> time, id |-> id]

MutErrorResultNoFlag(url, time, id) ==
  [url |-> url, threatScore |-> 0, threatLevel |-> "NONE", flags |-> <<>>,
   recommendation |-> "ALLOW", timestamp |-> time, id |-> id]

\* lines 1057-1064: new URL(url) threw before any score was added
UrlErrorResult(url, time, id) ==
  [url |-> url, threatScore |-> 0, threatLevel |-> "NONE",
   flags |-> <<[type |-> "analysis_error", score |-> 0]>>,
   recommendation |-> "ALLOW", timestamp |-> time, id |-> id]

\* lines 979-1055: the result for what the six detectors returned
UrlResultOf(url, homograph, typosquatting, patterns, tldScore, shortenerScore, malicious, time, id) ==
  UrlResult(url,
            UrlFlagsOf(homograph, typosquatting, patterns, tldScore, shortenerScore,
                       malicious),
            UrlThreatScore(homograph, typosquatting, patterns, tldScore, shortenerScore,
                           malicious),
            time, id)

\* lines 970-977: the six analyses of a URL that parsed
UrlAnalyses(data, url, hostname, lastIndex, time, id) ==
  UrlResultOf(url,
              DetectHomographWith(data.homoglyphMap, data.brandDatabase, hostname),
              DetectTyposquattingWith(data.brandDatabase, hostname),
              AnalyzeSuspiciousPatternsWith(data.brandDatabase, url, lastIndex),
              AssessTldRiskWith(data.tldRiskScores, TldOf(hostname)),
              isUrlShortener(hostname),
              CheckMaliciousDomainWith(data.maliciousDomains, hostname),
              time, id)

\* lines 956-1064
ComputeUrlResult(data, url, lastIndex, time, id) ==
  IF ~ParseUrl(url).ok THEN UrlErrorResult(url, time, id)
  ELSE UrlAnalyses(data, url, ParseUrl(url).hostname, lastIndex, time, id)

\* the state of the subdomain_depth pattern after analyzeUrl computed a result
LastIndexAfterUrl(url, lastIndex) ==
  IF ~ParseUrl(url).ok THEN lastIndex
  ELSE SubdomainDepthEnd(ToLowerCase(url), lastIndex)

(***************************************************************************)
(* Phishing detector (part_001).  A page is a record with every field of   *)
(* PageData; an absent field holds the empty string, the empty sequence,   *)
(* FALSE or 0.  PhishingData pairs phishingPatterns and                    *)
(* brandDatabasePhishing, which initPhishingDetector sets together.        *)
(***************************************************************************)
PhishingPatternsData ==
  [urgencyPatterns |-> <<[pattern |-> "act now", category |-> "urgency", score |-> 15]>>,
   credentialPatterns |->
     <<[pattern |-> "verify.*account", category |-> "credential", score |-> 20]>>,
   rewardPatterns |-> <<[pattern |-> "free gift", category |-> "reward", score |-> 15]>>,
   impersonationPatterns |->
     <<[pattern |-> "security team", category |-> "impersonation", score |-> 10]>>]

PhishingDataUnloaded == [phishingPatterns |-> Null, brandDatabasePhishing |-> Null]
PhishingDataLoaded ==
  [phishingPatterns |-> PhishingPatternsData, brandDatabasePhishing |-> BrandDatabaseData]

\* detectLoginForms, lines 40-89: the forms with a password field
RECURSIVE LoginForms(_, _)
LoginForms(forms, i) ==
  IF i > Len(forms) THEN <<>>
  ELSE (IF \E k \in 1..Len(forms[i].inputs) : forms[i].inputs[k].type = "password"
        THEN <<[action |-> forms[i].action, hasPasswordField |-> TRUE]>>
        ELSE <<>>) \o LoginForms(forms, i + 1)

\* new URL(action, 'https://' + currentDomain), line 114: the constructor
\* parses the base first and throws when that fails, whatever the action is;
\* with a base an absolute action parses alone and any other action resolves
\* against the base
ParseWithBase(action, currentDomain) ==
  IF ~ParseUrl("https://" \o currentDomain).ok THEN NoUrl
  ELSE IF ParseUrl(action).ok THEN ParseUrl(action)
  ELSE ParseUrl("https://" \o currentDomain)

\* lines 117-155, for an action URL that parsed
FormActionTypes(form, actionUrl, currentDomain) ==
  (IF /\ actionUrl.hostname # currentDomain
      /\ ~EndsWith(actionUrl.hostname, "." \o currentDomain)
   THEN <<[type |-> "cross_domain_submit", score |-> 25]>> ELSE <<>>)
  \o (IF /\ Len(Split(actionUrl.hostname, ".")) = 4
         /\ \A k \in 1..4 : /\ Len(Split(actionUrl.hostname, ".")[k]) \in 1..3
                           /\ AllDigits(Split(actionUrl.hostname, ".")[k])
      THEN <<[type |-> "ip_submit", score |-> 30]>> ELSE <<>>)
  \o (IF form.hasPasswordField /\ actionUrl.protocol = "http:"
      THEN <<[type |-> "insecure_submit", score |-> 20]>> ELSE <<>>)
  \o (IF StartsWith(form.action, "data:") \/ StartsWith(form.action, "javascript:")
      THEN <<[type |-> "suspicious_protocol", score |-> 35]>> ELSE <<>>)

\* analyzeFormActions, lines 97-169: the actions found, each with the score
\* it adds to the result
RECURSIVE FormActions(_, _, _)
FormActions(forms, currentDomain, i) ==
  IF i > Len(forms) THEN <<>>
  ELSE (IF forms[i].action \in {"", "#"} THEN <<>>
        ELSE IF ParseWithBase(forms[i].action, currentDomain).ok
        THEN FormActionTypes(forms[i], ParseWithBase(forms[i].action, currentDomain),
                             currentDomain)
        ELSE <<[type |-> "invalid_action", score |-> 10]>>)
       \o FormActions(forms, currentDomain, i + 1)

\* lines 191-220
TrustedDomains ==
  {"google.com", "google.co", "www.google.", "bing.com", "www.bing.com",
   "yahoo.com", "search.yahoo.com", "duckduckgo.com", "www.duckduckgo.com",
   "yandex.com", "yandex.ru", "baidu.com", "www.baidu.com", "youtube.com",
   "www.youtube.com", "wikipedia.org", "en.wikipedia.org", "reddit.com",
   "www.reddit.com", "twitter.com", "x.com", "facebook.com", "www.facebook.com",
   "instagram.com", "www.instagram.com", "linkedin.com", "www.linkedin.com",
   "github.com", "www.github.com", "stackoverflow.com", "www.stackoverflow.com",
   "amazon.com", "www.amazon.", "ebay.com", "www.ebay.com", "cnn.com", "bbc.com",
   "nytimes.com", "medium.com", "quora.com"}

\* lines 230-238: the number of keywords of the brand the page text includes
KeywordMatches(brand, pageText) ==
  Cardinality({k \in 1..Len(brand.keywords) :
                 Includes(pageText, ToLowerCase(brand.keywords[k]))})

\* lines 260-262: Math.min(keywordMatches * 10 * priorityMultiplier, 40)
BrandKeywordScore(brand, matches) ==
  Min2(IF brand.priority = "critical" THEN matches * 20
       ELSE IF brand.priority = "high" THEN matches * 15
       ELSE matches * 10, 40)

\* lines 267-289: the image and keyword pairs that count as a foreign logo
BrandLogoCount(brand, images) ==
  Cardinality({<<i, k>> \in (1..Len(images)) \X (1..Len(brand.keywords)) :
     /\ \/ Includes(ToLowerCase(images[i].src), brand.keywords[k])
        \/ Includes(ToLowerCase(images[i].alt), brand.keywords[k])
     /\ ~\E d \in 1..Len(brand.legitimateDomains) :
           Includes(ToLowerCase(images[i].src),
                    ReplaceFirst(brand.legitimateDomains[d], "*", ""))})

\* lines 228-290 for one brand: whether it is impersonated and its score
BrandImpersonated(brand, pageText, domainLower) ==
  KeywordMatches(brand, pageText) > 0 /\ ~IsLegitimateDomain(brand, domainLower)

RECURSIVE BrandImpersonationScore(_, _, _, _, _)
BrandImpersonationScore(brands, page, pageText, domainLower, b) ==
  IF b > Len(brands) THEN 0
  ELSE (IF BrandImpersonated(brands[b], pageText, domainLower)
        THEN BrandKeywordScore(brands[b], KeywordMatches(brands[b], pageText))
             + 15 * BrandLogoCount(brands[b], page.images)
        ELSE 0)
       + BrandImpersonationScore(brands, page, pageText, domainLower, b + 1)

\* detectBrandImpersonation, lines 177-293
DetectBrandImpersonationWith(brands, page, currentDomain) ==
  IF \/ brands = Null
     \/ \E t \in TrustedDomains : Includes(ToLowerCase(currentDomain), t)
  THEN [isImpersonating |-> FALSE, score |-> 0]
  ELSE [isImpersonating |->
          \E b \in 1..Len(brands.brands) :
            BrandImpersonated(brands.brands[b],
                              ToLowerCase(page.title \o " " \o page.textContent),
                              ToLowerCase(currentDomain)),
        score |-> BrandImpersonationScore(brands.brands, page,
                    ToLowerCase(page.title \o " " \o page.textContent),
                    ToLowerCase(currentDomain), 1)]

\* one pattern table of detectUrgencyLanguage: the matches in order
RECURSIVE PatternTableMatches(_, _, _)
PatternTableMatches(table, textLower, i) ==
  IF i > Len(table) THEN <<>>
  ELSE (IF RegexTest(table[i].pattern, textLower)
        THEN <<[type |-> "urgency_" \o table[i].category, score |-> table[i].score]>>
        ELSE <<>>) \o PatternTableMatches(table, textLower, i + 1)

\* detectUrgencyLanguage, lines 300-397; impersonation matches count but do
\* not set hasUrgencyLanguage
UrgencyResult(urgent, impersonation) ==
  [hasUrgencyLanguage |-> Len(urgent) > 0, matches |-> urgent \o impersonation,
   score |-> SumScores(urgent \o impersonation, 1)]

DetectUrgencyLanguageWith(patterns, textContent) ==
  IF patterns = Null \/ textContent = "" THEN UrgencyResult(<<>>, <<>>)
  ELSE UrgencyResult(
         PatternTableMatches(patterns.urgencyPatterns, ToLowerCase(textContent), 1)
           \o PatternTableMatches(patterns.credentialPatterns, ToLowerCase(textContent), 1)
           \o PatternTableMatches(patterns.rewardPatterns, ToLowerCase(textContent), 1),
         PatternTableMatches(patterns.impersonationPatterns, ToLowerCase(textContent), 1))

\* lines 457-472: one flag for every hidden field with a suspicious name
RECURSIVE HiddenFieldFlags(_, _)
HiddenFieldFlags(fields, i) ==
  IF i > Len(fields) THEN <<>>
  ELSE (IF \E n \in {"password", "pass", "pwd", "creditcard", "cc", "ssn"} :
             Includes(ToLowerCase(fields[i].name), n)
        THEN <<[type |-> "suspicious_hidden_field", score |-> 15]>>
        ELSE <<>>) \o HiddenFieldFlags(fields, i + 1)

\* analyzePageCharacteristics, lines 404-475
analyzePageCharacteristics(page) ==
  FlagWhen(page.hasPopupLogin, "popup_login", 10)
  \o FlagWhen(page.rightClickDisabled, "right_click_disabled", 15)
  \o FlagWhen(page.hasIframeLogin, "iframe_login", 20)
  \o FlagWhen(StartsWith(page.url, "http://"), "no_https", 25)
  \o FlagWhen(page.domainAge # 0 /\ page.domainAge < 30, "new_domain", 20)
  \o HiddenFieldFlags(page.hiddenFields, 1)

\* lines 499-505 and 533-539: every flag of the group carries the group's
\* score divided by the number of its flags, kept here as score / sharedBy
SharedFlags(found) ==
  [i \in 1..Len(found) |->
     [type |-> found[i].type, score |-> SumScores(found, 1), sharedBy |-> Len(found)]]

\* calculatePhishingScore, lines 486-540: the flags in the order pushed
PhishingFlags(loginForms, formActions, brand, urgency, characteristics) ==
  FlagWhen(Len(loginForms) > 0, "login_form_present", 10)
  \o SharedFlags(formActions)
  \o FlagWhen(brand.isImpersonating, "brand_impersonation", brand.score)
  \o (IF urgency.hasUrgencyLanguage
      THEN SubSeq(urgency.matches, 1, Min2(5, Len(urgency.matches))) ELSE <<>>)
  \o SharedFlags(characteristics)

\* lines 486-540: the sum of the scores of the five indicators
IndicatorScoreSum(loginForms, formActions, brand, urgency, characteristics) ==
  (IF Len(loginForms) > 0 THEN 10 ELSE 0)
  + SumScores(formActions, 1)
  + (IF brand.isImpersonating THEN brand.score ELSE 0)
  + (IF urgency.hasUrgencyLanguage THEN urgency.score ELSE 0)
  + SumScores(characteristics, 1)

\* lines 486-540 without the cap of line 543
MutPhishingSumUncapped(loginForms, formActions, brand, urgency, characteristics) ==
  IndicatorScoreSum(loginForms, formActions, brand, urgency, characteristics)

\* lines 486-543: the total score, capped at 100
PhishingTotalScore(loginForms, formActions, brand, urgency, characteristics) ==
  Min2(IndicatorScoreSum(loginForms, formActions, brand, urgency, characteristics), 100)

\* lines 548-552
PhishingThreatLevel(totalScore) ==
  IF totalScore >= THRESHOLD_CRITICAL THEN "CRITICAL"
  ELSE IF totalScore >= THRESHOLD_HIGH THEN "HIGH"
  ELSE IF totalScore >= THRESHOLD_MEDIUM THEN "MEDIUM"
  ELSE IF totalScore >= THRESHOLD_LOW THEN "LOW"
  ELSE "NONE"

\* lines 553-555
PhishingRecommendation(totalScore) ==
  IF totalScore >= THRESHOLD_HIGH THEN "BLOCK"
  ELSE IF totalScore >= THRESHOLD_MEDIUM THEN "WARN"
  ELSE "ALLOW"

\* lines 575-580, also part_003 267-272
PageDomain(page) ==
  IF ParseUrl(page.url).ok THEN ParseUrl(page.url).hostname ELSE page.domain

\* lines 582-595: the assessment of the indicators, without url and time
PhishingAssessment(loginForms, formActions, brand, urgency, characteristics) ==
  [totalScore |->
     PhishingTotalScore(loginForms, formActions, brand, urgency, characteristics),
   flags |-> PhishingFlags(loginForms, formActions, brand, urgency, characteristics)]

\* the sum of the indicator scores of a page before the cap
PageIndicatorSum(data, page, currentDomain) ==
  IndicatorScoreSum(
    LoginForms(page.forms, 1),
    FormActions(LoginForms(page.forms, 1), currentDomain, 1),
    DetectBrandImpersonationWith(data.brandDatabasePhishing, page, currentDomain),
    DetectUrgencyLanguageWith(data.phishingPatterns, page.textContent),
    analyzePageCharacteristics(page))

PageAssessmentWith(data, page, currentDomain) ==
  PhishingAssessment(
    LoginForms(page.forms, 1),
    FormActions(LoginForms(page.forms, 1), currentDomain, 1),
    DetectBrandImpersonationWith(data.brandDatabasePhishing, page, currentDomain),
    DetectUrgencyLanguageWith(data.phishingPatterns, page.textContent),
    analyzePageCharacteristics(page))

\* lines 597-607
PageResult(page, currentDomain, assessment, time, id) ==
  [url |-> page.url, domain |-> currentDomain,
   isPhishing |-> assessment.totalScore >= THRESHOLD_MEDIUM,
   threatScore |-> assessment.totalScore,
   threatLevel |-> PhishingThreatLevel(assessment.totalScore),
   recommendation |-> PhishingRecommendation(assessment.totalScore),
   flags |-> assessment.flags, timestamp |-> time, id |-> id]

(***************************************************************************)
(* Content filter (contentFilter.js 17-433) without its cache.  A content  *)
(* state pairs adultKeywords and contentFilterSettings.  Safe search only  *)
(* rewrites the URL of a search and is left out.                           *)
(***************************************************************************)
AdultKeywordsData ==
  [categories |->
     [adult |-> [explicit |-> <<"xxx">>, moderate |-> <<"adult">>,
                 blockTlds |-> <<".xxx">>],
      gambling |-> [keywords |-> <<"casino">>, blockTlds |-> <<".bet">>],
      violence |-> [keywords |-> <<"gore">>],
      drugs |-> [keywords |-> <<"weed">>],
      piracy |-> [keywords |-> <<"torrent">>]]]

ContentUnloaded == [adultKeywords |-> Null, contentFilterSettings |-> Null]
\* initContentFilter failed, lines 32-42: the defaults without the keywords
ContentDefaultsOnly ==
  [adultKeywords |-> Null, contentFilterSettings |-> DEFAULT_CONTENT_SETTINGS]
ContentLoaded ==
  [adultKeywords |-> AdultKeywordsData, contentFilterSettings |-> DEFAULT_CONTENT_SETTINGS]

\* checkDomainBlocklist, lines 59-97: whether the domain is blocked
checkDomainBlocklist(content, domain) ==
  /\ content.adultKeywords # Null /\ domain # "" /\ content.contentFilterSettings # Null
  /\ \E category \in {"adult", "gambling"} :
       /\ content.contentFilterSettings[category].enabled
       /\ \E i \in 1..Len(content.adultKeywords.categories[category].blockTlds) :
            EndsWith(ToLowerCase(domain),
                     content.adultKeywords.categories[category].blockTlds[i])

\* lines 121-123 and 136, 147, 158, 169: the keywords checked for a category
CategoryKeywords(content, category) ==
  IF category # "adult" THEN content.adultKeywords.categories[category].keywords
  ELSE IF content.contentFilterSettings.adult.strictness = "high"
  THEN content.adultKeywords.categories.adult.explicit
       \o content.adultKeywords.categories.adult.moderate
  ELSE content.adultKeywords.categories.adult.explicit

\* lines 129, 140, 151, 162, 173: the score one keyword match adds
UrlKeywordScore(content, category) ==
  CASE category = "adult" ->
         IF content.contentFilterSettings.adult.strictness = "high" THEN 80 ELSE 60
    [] category \in {"gambling", "violence"} -> 50
    [] OTHER -> 40

\* the number of keywords of the category the lower-cased URL includes
UrlKeywordHits(content, category, urlLower) ==
  IF ~content.contentFilterSettings[category].enabled THEN 0
  ELSE Cardinality({k \in 1..Len(CategoryKeywords(content, category)) :
                      Includes(urlLower, CategoryKeywords(content, category)[k])})

RECURSIVE UrlKeywordSum(_, _, _, _)
UrlKeywordSum(content, urlLower, categories, i) ==
  IF i > Len(categories) THEN 0
  ELSE UrlKeywordHits(content, categories[i], urlLower)
         * UrlKeywordScore(content, categories[i])
       + UrlKeywordSum(content, urlLower, categories, i + 1)

\* analyzeUrlKeywords, lines 104-183: the score, 0 when nothing matched
analyzeUrlKeywords(content, url) ==
  IF content.adultKeywords = Null \/ url = "" \/ content.contentFilterSettings = Null
  THEN 0
  ELSE Min2(UrlKeywordSum(content, ToLowerCase(url),
                          <<"adult", "gambling", "violence", "drugs", "piracy">>, 1),
            100)

\* getCategoryForUrl, lines 205-238: the result that is cached and returned;
\* checkUrl (397-433) blocks with this score exactly when shouldBlock holds
CategoryResult(shouldBlock, score) == [shouldBlock |-> shouldBlock, score |-> score]

ComputeCategoryForUrl(content, url) ==
  IF ~ParseUrl(url).ok THEN CategoryResult(FALSE, 0)
  ELSE IF checkDomainBlocklist(content, ParseUrl(url).hostname)
  THEN CategoryResult(TRUE, 100)
  ELSE CategoryResult(analyzeUrlKeywords(content, url) >= 50,
                      analyzeUrlKeywords(content, url))

\* the number of matches of /\bkeyword\b/gi in the lower-cased text, for a
\* keyword of word characters only, whose matches cannot overlap
WordMatchCount(text, keyword) ==
  Cardinality({i \in 1..(Len(text) - Len(keyword) + 1) :
                 /\ StartsWithAt(text, keyword, i)
                 /\ ~IsWordChar(CharAt(text, i - 1))
                 /\ ~IsWordChar(CharAt(text, i + Len(keyword)))})

RECURSIVE CategoryMatchCount(_, _, _, _)
CategoryMatchCount(content, category, text, k) ==
  IF k > Len(CategoryKeywords(content, category)) THEN 0
  ELSE WordMatchCount(text, ToLowerCase(CategoryKeywords(content, category)[k]))
       + CategoryMatchCount(content, category, text, k + 1)

\* lines 378-381 without Math.min(..., 50)
MutCategoryScoreNoCap(content, category, text) ==
  IF ~content.contentFilterSettings[category].enabled THEN 0
  ELSE IF CategoryMatchCount(content, category, text, 1) >= 3
  THEN CategoryMatchCount(content, category, text, 1) * 10
  ELSE 0

\* lines 354-382: what one category adds to the score
PageCategoryScore(content, category, text) ==
  IF ~content.contentFilterSettings[category].enabled THEN 0
  ELSE IF CategoryMatchCount(content, category, text, 1) >= 3
  THEN Min2(CategoryMatchCount(content, category, text, 1) * 10, 50)
  ELSE 0

RECURSIVE PageCategorySum(_, _, _, _)
PageCategorySum(content, text, categories, i) ==
  IF i > Len(categories) THEN 0
  ELSE PageCategoryScore(content, categories[i], text)
       + PageCategorySum(content, text, categories, i + 1)

\* analyzePageContent, lines 335-390: the score; shouldBlock is score >= 50
analyzePageContent(content, page) ==
  IF content.adultKeywords = Null \/ content.contentFilterSettings = Null THEN 0
  ELSE Min2(PageCategorySum(content,
                            ToLowerCase(page.title) \o " " \o ToLowerCase(page.textContent),
                            <<"adult", "gambling", "violence", "drugs", "piracy">>, 1),
            100)

\* lines 378-380: the categories pushed to matchedCategories, in the order
\* of the settings
RECURSIVE PageMatchedCategories(_, _, _, _)
PageMatchedCategories(content, text, categories, i) ==
  IF i > Len(categories) THEN <<>>
  ELSE (IF PageCategoryScore(content, categories[i], text) > 0
        THEN <<categories[i]>> ELSE <<>>)
       \o PageMatchedCategories(content, text, categories, i + 1)

\* analyzePageContent, lines 335-390: the result without the list of matches
PageContentResult(content, page) ==
  [matchedCategories |->
     IF content.adultKeywords = Null \/ content.contentFilterSettings = Null THEN <<>>
     ELSE PageMatchedCategories(
            content, ToLowerCase(page.title) \o " " \o ToLowerCase(page.textContent),
            <<"adult", "gambling", "violence", "drugs", "piracy">>, 1),
   score |-> analyzePageContent(content, page),
   shouldBlock |-> analyzePageContent(content, page) >= 50]

(***************************************************************************)
(* Privacy shield (part_002 24-139): the tracker lists, the settings and   *)
(* the Bloom filter initPrivacyShield builds from the lists.               *)
(***************************************************************************)
TrackerDomainsData ==
  [analytics |-> <<"stats.io">>, advertising |-> <<"bit.ly">>,
   social |-> <<"ok.org">>, fingerprinting |-> <<>>]

TrackerCategories == <<"analytics", "advertising", "social", "fingerprinting">>

\* _getHashPositions for a domain name
DomainHashPositions(f, pair) ==
  HashPositionsFrom(f, WordMod(pair[1], f.size), WordMod(pair[2], f.size))

TrackerBloomAdd(f, domain) ==
  [f EXCEPT !.bitArray =
       SetBits(f.bitArray,
               DomainHashPositions(f, HashPair(Chars(domain),
                                               BloomHash(Chars(domain), Word(0, 0)))), 1),
     !.itemCount = f.itemCount + 1]

TrackerBloomContains(f, domain) ==
  AllBitsSet(f.bitArray,
             DomainHashPositions(f, HashPair(Chars(domain),
                                             BloomHash(Chars(domain), Word(0, 0)))))

RECURSIVE TrackerBloomAddAll(_, _, _)
TrackerBloomAddAll(f, domains, i) ==
  IF i > Len(domains) THEN f
  ELSE TrackerBloomAddAll(TrackerBloomAdd(f, ToLowerCase(domains[i])), domains, i + 1)

\* initTrackerBloomFilter, lines 61-83; createOptimal(3, 0.01) (part_000
\* 707-715) gives size ceil(3 * 9.585) = 29 and hashCount ceil(9.67 * 0.693) = 7
TrackerBloomFilter ==
  TrackerBloomAddAll(NewBloomFilter(29, 7),
    TrackerDomainsData.analytics \o TrackerDomainsData.advertising
      \o TrackerDomainsData.social \o TrackerDomainsData.fingerprinting, 1)

PrivacyUnloaded ==
  [trackerDomains |-> Null, privacySettings |-> Null, trackerBloomFilter |-> Null]
PrivacyLoaded ==
  [trackerDomains |-> TrackerDomainsData, privacySettings |-> DEFAULT_PRIVACY_SETTINGS,
   trackerBloomFilter |-> TrackerBloomFilter]

\* lines 104-116 without the loop over the parent domains
MutBloomDomainOnly(f, parts, i) == TrackerBloomContains(f, Join(parts, "."))

\* lines 105-116: the filter holds the domain or one of its parent domains
RECURSIVE BloomHasDomainOrParent(_, _, _)
BloomHasDomainOrParent(f, parts, i) ==
  /\ i <= Len(parts)
  /\ \/ TrackerBloomContains(f, Join(SubSeq(parts, i, Len(parts)), "."))
     \/ BloomHasDomainOrParent(f, parts, i + 1)

\* isTrackerDomain, lines 90-139: whether the domain is a tracker
isTrackerDomain(privacy, domain) ==
  /\ privacy.trackerDomains # Null /\ domain # ""
  /\ privacy.privacySettings # Null /\ privacy.privacySettings.blockTrackers
  /\ \/ privacy.trackerBloomFilter = Null
     \/ BloomHasDomainOrParent(privacy.trackerBloomFilter,
                               Split(ToLowerCase(domain), "."), 1)
  /\ \E c \in 1..Len(TrackerCategories) :
       /\ privacy.privacySettings.trackerCategories[TrackerCategories[c]]
       /\ \E i \in 1..Len(privacy.trackerDomains[TrackerCategories[c]]) :
            \/ ToLowerCase(domain) = privacy.trackerDomains[TrackerCategories[c]][i]
            \/ EndsWith(ToLowerCase(domain),
                        "." \o privacy.trackerDomains[TrackerCategories[c]][i])

\* a setting that was never set reads as undefined, which is falsy
SettingOn(settings, key) == key \in DOMAIN settings /\ settings[key] = TRUE

\* privacySettings.trackerCategories?.[category], lines 121 and 221
CategoryOn(settings, category) ==
  /\ "trackerCategories" \in DOMAIN settings
  /\ SettingOn(settings.trackerCategories, category)

\* lines 123-129: the domain is an entry of the list or a subdomain of one
ListedUnder(domains, domainLower) ==
  \E i \in 1..Len(domains) :
    domainLower = domains[i] \/ EndsWith(domainLower, "." \o domains[i])

\* what isTrackerDomain finds out about a lower-cased domain from the data:
\* whether the filter lets it pass (lines 104-116) and the categories that
\* list it, in the order of the data (lines 119-130)
TrackerFacts(trackerDomains, filter, domainLower) ==
  [passes |-> \/ filter = Null
              \/ BloomHasDomainOrParent(filter, Split(domainLower, "."), 1),
   listed |-> SelectSeq(TrackerCategories,
                        LAMBDA c : ListedUnder(trackerDomains[c], domainLower))]

\* lines 121 and 126-128 without the test of the settings
MutListedIgnoringSettings(settings, listed) == listed

\* lines 119-130: the categories pushed, those of the listing ones that are on
EnabledListed(settings, listed) ==
  SelectSeq(listed, LAMBDA c : CategoryOn(settings, c))

NoTracker == [isTracker |-> FALSE, categories |-> <<>>, shouldBlock |-> FALSE]

\* lines 126-136
TrackerResult(categories) ==
  [isTracker |-> categories # <<>>, categories |-> categories,
   shouldBlock |-> categories # <<>>]

\* isTrackerDomain, lines 90-139: the whole result, from the settings and
\* from what the data says about the domain
TrackerCheck(hasData, settings, domain, facts) ==
  IF ~hasData \/ domain = "" \/ ~SettingOn(settings, "blockTrackers") THEN NoTracker
  ELSE IF ~facts.passes THEN NoTracker
  ELSE TrackerResult(EnabledListed(settings, facts.listed))

\* the rules of one category, lines 223-233
CategoryRules(category, domains) ==
  [i \in 1..Len(domains) |-> [category |-> category, urlFilter |-> domains[i]]]

RECURSIVE RulesFrom(_, _, _)
RulesFrom(trackerDomains, settings, c) ==
  IF c > Len(TrackerCategories) THEN <<>>
  ELSE (IF CategoryOn(settings, TrackerCategories[c])
        THEN CategoryRules(TrackerCategories[c], trackerDomains[TrackerCategories[c]])
        ELSE <<>>) \o RulesFrom(trackerDomains, settings, c + 1)

\* rule ids run from 5000 and the loops stop once the id passes 6000
MAX_TRACKER_RULES == 1001

\* getTrackerBlockingRules, lines 211-241: category and domain of every rule
getTrackerBlockingRules(trackerDomains, settings) ==
  IF trackerDomains = Null \/ ~SettingOn(settings, "blockTrackers") THEN <<>>
  ELSE SubSeq(RulesFrom(trackerDomains, settings, 1), 1,
              Min2(MAX_TRACKER_RULES, Len(RulesFrom(trackerDomains, settings, 1))))

\* { ...a, ...b }
Spread(a, b) ==
  [k \in DOMAIN a \cup DOMAIN b |-> IF k \in DOMAIN b THEN b[k] ELSE a[k]]

(***************************************************************************)
(* The analysed inputs.  The URLs cover unparsable strings and every       *)
(* threat level; the pages an empty page, a phishing page whose indicators *)
(* sum past 100, a page at the MEDIUM threshold whose text is blocked      *)
(* content, and a login page that carries its domain beside a broken URL.  *)
(***************************************************************************)
Urls ==
  {"", "paypal.com", "https://paypal.com/", "https://a.paypal.com/",
   "https://bit.ly/xxx", "http://x.tk", "https://paypa1.com/", "http://evil.tk/login"}

PageEmpty ==
  [url |-> "", domain |-> "", timestamp |-> 0, title |-> "", textContent |-> "",
   forms |-> <<>>, images |-> <<>>, hasPopupLogin |-> FALSE,
   rightClickDisabled |-> FALSE, hasIframeLogin |-> FALSE, domainAge |-> 0,
   hiddenFields |-> <<>>]

PagePhishing ==
  [PageEmpty EXCEPT
     !.url = "http://evil.tk/login", !.timestamp = 7, !.title = "PayPal",
     !.textContent = "Act now: verify your account",
     !.forms = <<[action |-> "http://1.2.3.4/c",
                  inputs |-> <<[type |-> "password", name |-> "p"]>>]>>,
     !.images = <<[src |-> "http://x.tk/paypal.png", alt |-> "logo"]>>,
     !.hiddenFields = <<[name |-> "CCnum"]>>]

PageMedium ==
  [PageEmpty EXCEPT
     !.url = "http://a.ok.org/", !.timestamp = 7, !.title = "xxx",
     !.textContent = "xxx xxx xxx xxx",
     !.rightClickDisabled = TRUE, !.domainAge = 45]

PageLogin ==
  [PageEmpty EXCEPT
     !.url = "paypal login", !.domain = "ok.org", !.title = "Log in",
     !.forms = <<[action |-> "/session",
                  inputs |-> <<[type |-> "text", name |-> "user"],
                               [type |-> "password", name |-> "pw"]>>]>>]

Pages == {PageEmpty, PagePhishing, PageMedium, PageLogin}

\* the domains a user adds to or removes from the whitelist
WhitelistInputs == {"https://www.Paypal.com/x", "*.ok.org"}

(***************************************************************************)
(* The analyses of the inputs, tabulated: every entry is the value the     *)
(* operator named in it computes.                                          *)
(***************************************************************************)
UrlDataStates == {UrlDataUnloaded, UrlDataLoaded}
PhishingDataStates == {PhishingDataUnloaded, PhishingDataLoaded}
ContentStates == {ContentUnloaded, ContentDefaultsOnly, ContentLoaded}
PrivacyStates == {PrivacyUnloaded, PrivacyLoaded}

ParsedUrl == [u \in Urls \cup {p.url : p \in Pages} |-> ParseUrl(u)]

\* the values lastIndex of the subdomain_depth pattern can take
LastIndexes == {0} \cup {SubdomainDepthEnd(ToLowerCase(u), 0) : u \in Urls}

UrlResultTable ==
  [d \in UrlDataStates, u \in Urls, lastIndex \in LastIndexes |->
     ComputeUrlResult(d, u, lastIndex, 0, 0)]

LastIndexTable ==
  [u \in Urls, lastIndex \in LastIndexes |-> LastIndexAfterUrl(u, lastIndex)]

PageDomainOf == [p \in Pages |-> PageDomain(p)]

PageAssessmentTable ==
  [d \in PhishingDataStates, p \in Pages |-> PageAssessmentWith(d, p, PageDomain(p))]

CategoryTable == [c \in ContentStates, u \in Urls |-> ComputeCategoryForUrl(c, u)]

PageContentTable == [c \in ContentStates, p \in Pages |-> analyzePageContent(c, p)]

TrackerTable ==
  [v \in PrivacyStates, u \in Urls |-> isTrackerDomain(v, ParseUrl(u).hostname)]


\* addToWhitelist, part_003 line 99:
\* domain.toLowerCase().replace(/^(https?:\/\/)?(www\.)?/, '').split('/')[0]
StripPrefix(s, prefix) == IF StartsWith(s, prefix) THEN SliceFrom(s, Len(prefix) + 1) ELSE s

NormalizeWhitelistDomain(domain) ==
  Split(StripPrefix(StripPrefix(StripPrefix(ToLowerCase(domain), "http://"),
                                "https://"), "www."), "/")[1]

\* isWhitelisted, part_003 lines 81-88: one whitelist entry against the
\* lower-cased domain
MutEntryMatchesExactOnly(whitelisted, domainLower) == domainLower = whitelisted

EntryMatches(whitelisted, domainLower) ==
  IF StartsWith(whitelisted, "*.")
  THEN \/ domainLower = SliceFrom(whitelisted, 3)
       \/ EndsWith(domainLower, "." \o SliceFrom(whitelisted, 3))
  ELSE \/ domainLower = whitelisted
       \/ EndsWith(domainLower, "." \o whitelisted)

Hosts == {ParseUrl(u).hostname : u \in Urls} \cup {PageDomain(p) : p \in Pages}
NormalizedInputs == [w \in WhitelistInputs |-> NormalizeWhitelistDomain(w)]
LoweredInputs == [w \in WhitelistInputs |-> ToLowerCase(w)]

EntryMatchTable ==
  [w \in {NormalizedInputs[x] : x \in WhitelistInputs}, h \in Hosts |->
     EntryMatches(w, ToLowerCase(h))]

(***************************************************************************)
(* State of the security modules and their operations.  One call of an     *)
(* analysis function is one step: the analyzers have no suspension point   *)
(* between their cache lookup and their return.                            *)
(***************************************************************************)
MaxCalls == 2                       \* analysis calls in a behaviour
MaxTime == 600000                   \* the clock stops here, in milliseconds
TickSteps == {299999, 300000}       \* how far the clock moves in one step

\* what initializeSecurity may meet: which module initialisations succeed
InitOutcomes ==
  {[url |-> TRUE, phishing |-> TRUE, content |-> TRUE, privacy |-> TRUE],
   [url |-> FALSE, phishing |-> FALSE, content |-> FALSE, privacy |-> FALSE]}

\* the statistics a previous session left in storage
StoredStats ==
  [urlsAnalyzed |-> 9, threatsBlocked |-> 2, phishingDetected |-> 1,
   contentBlocked |-> 0, lastUpdated |-> 0]

\* nothing unsaved, no call of the later parts made
DEFAULT_MAX_ATTEMPTS == 3

\* no focus session: the session keys are absent from storage, where
\* failedUnlockAttempts reads as 0 and maxAttempts as 3 (part_005 line 605)
NoSession ==
  [passwordHash |-> Null, failedUnlockAttempts |-> 0, maxAttempts |-> DEFAULT_MAX_ATTEMPTS,
   optionsEmergencyCode |-> Null]

ExtraIdle ==
  /\ unsavedCalls = [url |-> 0, page |-> 0]
  /\ sessionStore = NoSession
  /\ unlockCalls = <<>>
  /\ unlockLog = [compared |-> 0, rejected |-> 0]

EmptyMap == [k \in {} |-> k]
MapPut(m, k, v) == [x \in DOMAIN m \cup {k} |-> IF x = k THEN v ELSE m[x]]
NoCall == [serial |-> 0, op |-> "none"]

\* the modules as loaded, before any call
SecFresh ==
  /\ now = 0
  /\ securityInitialized = FALSE
  /\ urlData = UrlDataUnloaded
  /\ phishingData = PhishingDataUnloaded
  /\ contentData = ContentUnloaded
  /\ privacyData = PrivacyUnloaded
  /\ urlAnalysisCache = EmptyMap
  /\ pageAnalysisCache = EmptyMap
  /\ contentFilterCache = EmptyMap
  /\ subdomainDepthLastIndex = 0
  /\ securityWhitelist = <<>>
  /\ securityStats = [urlsAnalyzed |-> 0, threatsBlocked |-> 0, phishingDetected |-> 0,
                      contentBlocked |-> 0, lastUpdated |-> 0]
  /\ resultsCreated = 0
  /\ calls = 0
  /\ analyzerCall = NoCall
  /\ secCall = NoCall
  /\ firstCall = EmptyMap

SecInit ==
  /\ SecFresh
  /\ storage = [whitelist |-> <<>>, stats |-> StoredStats]
  /\ wlCalls = <<>> /\ storageQueue = <<>>
  /\ dynamicRules = <<>>
  /\ ExtraIdle

\* the clock
Tick ==
  /\ \E d \in TickSteps : now + d <= MaxTime /\ now' = now + d
  /\ UNCHANGED <<securityInitialized, urlData, phishingData, contentData, privacyData,
                 urlAnalysisCache, pageAnalysisCache, contentFilterCache,
                 subdomainDepthLastIndex, securityWhitelist, securityStats, storage,
                 resultsCreated, calls, analyzerCall, secCall, firstCall,
                 nonSecVars>>

\* initializeSecurity, part_003 lines 23-69, with initUrlAnalyzer
\* (contentFilter.js 483-503), initPhishingDetector (part_001 17-33),
\* initContentFilter (contentFilter.js 17-44) and initPrivacyShield
\* (part_002 24-55)
InitializeSecurity ==
  /\ ~securityInitialized
  /\ \E o \in InitOutcomes :
       /\ urlData' = IF o.url THEN UrlDataLoaded ELSE urlData
       /\ phishingData' = IF o.phishing THEN PhishingDataLoaded ELSE phishingData
       /\ contentData' = IF o.content THEN ContentLoaded
                         ELSE [contentData EXCEPT
                                 !.contentFilterSettings = DEFAULT_CONTENT_SETTINGS]
       /\ privacyData' = IF o.privacy THEN PrivacyLoaded ELSE privacyData
       /\ securityInitialized' = (o.url /\ o.phishing /\ o.privacy)
  /\ securityWhitelist' = storage.whitelist
  /\ securityStats' = storage.stats
  /\ UNCHANGED <<now, urlAnalysisCache, pageAnalysisCache, contentFilterCache,
                 subdomainDepthLastIndex, storage, resultsCreated, calls, analyzerCall,
                 secCall, firstCall, nonSecVars>>

\* isWhitelisted(domain), part_003 lines 76-89
isWhitelisted(whitelist, domain) ==
  /\ domain # ""
  /\ \E i \in 1..Len(whitelist) : EntryMatchTable[whitelist[i], domain]

\* addToWhitelist(domain), part_003 lines 97-114
AddToWhitelist ==
  /\ \E w \in WhitelistInputs :
       securityWhitelist' =
         IF \E i \in 1..Len(securityWhitelist) : securityWhitelist[i] = NormalizedInputs[w]
         THEN securityWhitelist
         ELSE Append(securityWhitelist, NormalizedInputs[w])
  /\ securityWhitelist' # securityWhitelist
  /\ storage' = [storage EXCEPT !.whitelist = securityWhitelist']
  /\ UNCHANGED <<now, securityInitialized, urlData, phishingData, contentData,
                 privacyData, urlAnalysisCache, pageAnalysisCache, contentFilterCache,
                 subdomainDepthLastIndex, securityStats, resultsCreated, calls,
                 analyzerCall, secCall, firstCall, nonSecVars>>

\* removeFromWhitelist(domain), part_003 lines 122-140
RemoveFromWhitelist ==
  /\ \E w \in WhitelistInputs :
       securityWhitelist' = SelectSeq(securityWhitelist, LAMBDA e : e # LoweredInputs[w])
  /\ securityWhitelist' # securityWhitelist
  /\ storage' = [storage EXCEPT !.whitelist = securityWhitelist']
  /\ UNCHANGED <<now, securityInitialized, urlData, phishingData, contentData,
                 privacyData, urlAnalysisCache, pageAnalysisCache, contentFilterCache,
                 subdomainDepthLastIndex, securityStats, resultsCreated, calls,
                 analyzerCall, secCall, firstCall, nonSecVars>>

URL_CACHE_MAX == 1000
PAGE_CACHE_MAX == 500
CATEGORY_CACHE_EXPIRY == 60000
CONTENT_BLOCK_SCORE == 50
TRACKER_FLAG_SCORE == 10
STATS_SAVE_EVERY == 10

\* a cached analysis younger than its expiry window is served
MutUrlFreshInclusive(timestamp, time) == time - timestamp <= CACHE_EXPIRY_URL_ANALYSIS
MutUrlNeverFresh(timestamp, time) == FALSE

\* contentFilter.js line 952
UrlCacheFresh(timestamp, time) == time - timestamp < CACHE_EXPIRY_URL_ANALYSIS
\* part_001 line 571
PageCacheFresh(timestamp, time) == time - timestamp < CACHE_EXPIRY_PAGE_ANALYSIS

\* contentFilter.js lines 1070-1077 and part_001 lines 613-620
\* the sweep made on every insertion, whatever the size of the cache
MutSweepBelowThreshold(cache, max, expiry, time) ==
  [k \in {x \in DOMAIN cache : ~(time - cache[x].timestamp > expiry)} |-> cache[k]]

SweepCache(cache, max, expiry, time) ==
  IF Cardinality(DOMAIN cache) > max
  THEN [k \in {x \in DOMAIN cache : ~(time - cache[x].timestamp > expiry)} |-> cache[k]]
  ELSE cache

EntryAge(cache, key, time) ==
  IF key \in DOMAIN cache THEN time - cache[key].timestamp ELSE -1

\* analyzeUrl(url), contentFilter.js lines 949-1080
UrlCacheHit(url) ==
  /\ url \in DOMAIN urlAnalysisCache
  /\ UrlCacheFresh(urlAnalysisCache[url].timestamp, now)

UrlComputed(url) ==
  [UrlResultTable[urlData, url, subdomainDepthLastIndex] EXCEPT
     !.timestamp = now, !.id = resultsCreated + 1]

analyzeUrlReturn(url) ==
  IF UrlCacheHit(url) THEN urlAnalysisCache[url].result ELSE UrlComputed(url)

\* the first call for a URL since the cache was cleared or the window of the
\* earlier first call ran out
FirstCallAfter(first, url, value, time, serial) ==
  IF url \in DOMAIN first /\ time - first[url].time < CACHE_EXPIRY_URL_ANALYSIS
  THEN first
  ELSE MapPut(first, url, [value |-> value, time |-> time, serial |-> serial])

AnalyzeUrlCall(url, serial) ==
  /\ urlAnalysisCache' =
       IF UrlCacheHit(url) THEN urlAnalysisCache
       ELSE SweepCache(MapPut(urlAnalysisCache, url,
                              [result |-> UrlComputed(url), timestamp |-> now]),
                       URL_CACHE_MAX, CACHE_EXPIRY_URL_ANALYSIS, now)
  /\ subdomainDepthLastIndex' =
       IF UrlCacheHit(url) THEN subdomainDepthLastIndex
       ELSE LastIndexTable[url, subdomainDepthLastIndex]
  /\ analyzerCall' = [serial |-> serial, op |-> "analyzeUrl", key |-> url, time |-> now,
                      value |-> analyzeUrlReturn(url), computed |-> ~UrlCacheHit(url),
                      entryAge |-> EntryAge(urlAnalysisCache, url, now)]
  /\ firstCall' = FirstCallAfter(firstCall, url, analyzeUrlReturn(url), now, serial)

AnalyzeUrl ==
  /\ calls < MaxCalls
  /\ calls' = calls + 1
  /\ \E url \in Urls :
       /\ AnalyzeUrlCall(url, calls + 1)
       /\ resultsCreated' = IF UrlCacheHit(url) THEN resultsCreated ELSE resultsCreated + 1
  /\ secCall' = NoCall
  /\ UNCHANGED <<now, securityInitialized, urlData, phishingData, contentData,
                 privacyData, pageAnalysisCache, contentFilterCache, securityWhitelist,
                 securityStats, storage, nonSecVars>>

\* clearUrlAnalysisCache, contentFilter.js line 1085
ClearUrlAnalysisCache ==
  /\ urlAnalysisCache # EmptyMap
  /\ urlAnalysisCache' = EmptyMap
  /\ firstCall' = EmptyMap
  /\ UNCHANGED <<now, securityInitialized, urlData, phishingData, contentData,
                 privacyData, pageAnalysisCache, contentFilterCache,
                 subdomainDepthLastIndex, securityWhitelist, securityStats, storage,
                 resultsCreated, calls, analyzerCall, secCall, nonSecVars>>

\* analyzePage(pageData), part_001 lines 565-623
PageCacheKey(page) == <<page.url, IF page.timestamp # 0 THEN page.timestamp ELSE now>>

PageCacheHit(page) ==
  /\ PageCacheKey(page) \in DOMAIN pageAnalysisCache
  /\ PageCacheFresh(pageAnalysisCache[PageCacheKey(page)].timestamp, now)

PageComputed(page) ==
  PageResult(page, PageDomainOf[page], PageAssessmentTable[phishingData, page], now,
             resultsCreated + 1)

analyzePageReturn(page) ==
  IF PageCacheHit(page) THEN pageAnalysisCache[PageCacheKey(page)].result
  ELSE PageComputed(page)

AnalyzePageCall(page, serial) ==
  /\ pageAnalysisCache' =
       IF PageCacheHit(page) THEN pageAnalysisCache
       ELSE SweepCache(MapPut(pageAnalysisCache, PageCacheKey(page),
                              [result |-> PageComputed(page), timestamp |-> now]),
                       PAGE_CACHE_MAX, CACHE_EXPIRY_PAGE_ANALYSIS, now)
  /\ analyzerCall' = [serial |-> serial, op |-> "analyzePage",
                      key |-> PageCacheKey(page), time |-> now,
                      value |-> analyzePageReturn(page), computed |-> ~PageCacheHit(page),
                      entryAge |-> EntryAge(pageAnalysisCache, PageCacheKey(page), now)]
  /\ resultsCreated' = IF PageCacheHit(page) THEN resultsCreated ELSE resultsCreated + 1

AnalyzePage ==
  /\ calls < MaxCalls
  /\ calls' = calls + 1
  /\ \E page \in Pages : AnalyzePageCall(page, calls + 1)
  /\ secCall' = NoCall
  /\ UNCHANGED <<now, securityInitialized, urlData, phishingData, contentData,
                 privacyData, urlAnalysisCache, contentFilterCache,
                 subdomainDepthLastIndex, securityWhitelist, securityStats, storage,
                 firstCall, nonSecVars>>

\* clearPageAnalysisCache, part_001 line 628
ClearPageAnalysisCache ==
  /\ pageAnalysisCache # EmptyMap
  /\ pageAnalysisCache' = EmptyMap
  /\ UNCHANGED <<now, securityInitialized, urlData, phishingData, contentData,
                 privacyData, urlAnalysisCache, contentFilterCache,
                 subdomainDepthLastIndex, securityWhitelist, securityStats, storage,
                 resultsCreated, calls, analyzerCall, secCall, firstCall,
                 nonSecVars>>

\* getCategoryForUrl(url), contentFilter.js lines 190-242, as checkUrl
\* (lines 397-433) calls it
CategoryCacheHit(url) ==
  /\ url \in DOMAIN contentFilterCache
  /\ now - contentFilterCache[url].timestamp < CATEGORY_CACHE_EXPIRY

getCategoryForUrl(url) ==
  IF CategoryCacheHit(url) THEN contentFilterCache[url].result
  ELSE CategoryTable[contentData, url]

CheckUrlCall(url) ==
  contentFilterCache' =
    IF CategoryCacheHit(url) THEN contentFilterCache
    ELSE MapPut(contentFilterCache, url,
                [result |-> CategoryTable[contentData, url], timestamp |-> now])

MutClassifyMediumStrict(score) ==
  IF score >= THRESHOLD_CRITICAL THEN "CRITICAL"
  ELSE IF score >= THRESHOLD_HIGH THEN "HIGH"
  ELSE IF score > THRESHOLD_MEDIUM THEN "MEDIUM"
  ELSE IF score >= THRESHOLD_LOW THEN "LOW"
  ELSE "NONE"

MutRecommendWarnStrict(score) ==
  IF score >= THRESHOLD_HIGH THEN "BLOCK"
  ELSE IF score > THRESHOLD_MEDIUM THEN "WARN"
  ELSE "ALLOW"

\* classifyThreatLevel(score), part_002 lines 415-421
classifyThreatLevel(score) ==
  IF score >= THRESHOLD_CRITICAL THEN "CRITICAL"
  ELSE IF score >= THRESHOLD_HIGH THEN "HIGH"
  ELSE IF score >= THRESHOLD_MEDIUM THEN "MEDIUM"
  ELSE IF score >= THRESHOLD_LOW THEN "LOW"
  ELSE "NONE"

\* part_003 lines 225-230 and 313-317
SecurityRecommendation(score) ==
  IF score >= THRESHOLD_HIGH THEN "BLOCK"
  ELSE IF score >= THRESHOLD_MEDIUM THEN "WARN"
  ELSE "ALLOW"

\* part_003 lines 157-171 and 251-265: the result before any module ran
SecurityResultInit(url, time) ==
  [url |-> url, isWhitelisted |-> FALSE, isPhishing |-> FALSE, threatScore |-> 0,
   threatLevel |-> "NONE", recommendation |-> "ALLOW", flags |-> <<>>,
   timestamp |-> time]

SecurityResult(url, time, isPhishing, flags, score) ==
  [url |-> url, isWhitelisted |-> FALSE, isPhishing |-> isPhishing,
   threatScore |-> score, threatLevel |-> classifyThreatLevel(score),
   recommendation |-> SecurityRecommendation(score), flags |-> flags,
   timestamp |-> time]

\* saveSecurityStats, part_003 lines 330-339
SavedStats(stats, time) == [stats EXCEPT !.lastUpdated = time]

\* part_003 lines 183-235: the statistics after a URL that is not whitelisted
UrlStatsCounted(stats, score) ==
  [stats EXCEPT !.urlsAnalyzed = @ + 1,
                !.threatsBlocked = IF score >= THRESHOLD_HIGH THEN @ + 1 ELSE @]

UrlStatsAfter(stats, score, time) ==
  IF UrlStatsCounted(stats, score).urlsAnalyzed % STATS_SAVE_EVERY = 0
  THEN SavedStats(UrlStatsCounted(stats, score), time)
  ELSE UrlStatsCounted(stats, score)

\* part_003 lines 187-219: the flags and the score of the modules
UrlSecurityFlags(urlResult, category, isTracker) ==
  urlResult.flags
  \o FlagWhen(category.shouldBlock, "content_blocked", category.score)
  \o FlagWhen(isTracker, "tracker_detected", TRACKER_FLAG_SCORE)

UrlSecurityScore(urlResult, category) ==
  Max2(Max2(0, urlResult.threatScore), IF category.shouldBlock THEN category.score ELSE 0)

SecCallOf(op, serial, domain, value) ==
  [serial |-> serial, op |-> op, domain |-> domain, value |-> value]

\* analyzeUrlSecurity(url), part_003 lines 156-242
UrlSecurityUnparsable(url) ==
  /\ ~ParsedUrl[url].ok
  /\ secCall' = SecCallOf("url", calls + 1, "", SecurityResultInit(url, now))
  /\ analyzerCall' = NoCall
  /\ UNCHANGED <<urlAnalysisCache, contentFilterCache, subdomainDepthLastIndex,
                 securityStats, storage, resultsCreated, firstCall>>

UrlSecurityWhitelisted(url) ==
  /\ ParsedUrl[url].ok
  /\ isWhitelisted(securityWhitelist, ParsedUrl[url].hostname)
  /\ secCall' = SecCallOf("url", calls + 1, ParsedUrl[url].hostname,
                          [SecurityResultInit(url, now) EXCEPT !.isWhitelisted = TRUE])
  /\ analyzerCall' = NoCall
  /\ UNCHANGED <<urlAnalysisCache, contentFilterCache, subdomainDepthLastIndex,
                 securityStats, storage, resultsCreated, firstCall>>

UrlSecurityAnalyzed(url) ==
  /\ ParsedUrl[url].ok
  /\ ~isWhitelisted(securityWhitelist, ParsedUrl[url].hostname)
  /\ AnalyzeUrlCall(url, calls + 1)
  /\ resultsCreated' = IF UrlCacheHit(url) THEN resultsCreated ELSE resultsCreated + 1
  /\ CheckUrlCall(url)
  /\ secCall' =
       SecCallOf("url", calls + 1, ParsedUrl[url].hostname,
                 SecurityResult(url, now, FALSE,
                                UrlSecurityFlags(analyzeUrlReturn(url),
                                                 getCategoryForUrl(url),
                                                 TrackerTable[privacyData, url]),
                                UrlSecurityScore(analyzeUrlReturn(url),
                                                 getCategoryForUrl(url))))
  /\ securityStats' =
       UrlStatsAfter(securityStats,
                     UrlSecurityScore(analyzeUrlReturn(url), getCategoryForUrl(url)), now)
  /\ storage' = IF securityStats'.urlsAnalyzed % STATS_SAVE_EVERY = 0
                THEN [storage EXCEPT !.stats = securityStats']
                ELSE storage

AnalyzeUrlSecurity ==
  /\ calls < MaxCalls
  /\ calls' = calls + 1
  /\ \E url \in Urls :
       \/ UrlSecurityUnparsable(url)
       \/ UrlSecurityWhitelisted(url)
       \/ UrlSecurityAnalyzed(url)
  /\ UNCHANGED <<now, securityInitialized, urlData, phishingData, contentData,
                 privacyData, pageAnalysisCache, securityWhitelist, nonSecVars>>

\* part_003 lines 289 and 305 with the scores added instead of Math.max
MutPageScoreAdded(pageResult, contentScore) ==
  pageResult.threatScore
  + (IF contentScore >= CONTENT_BLOCK_SCORE THEN contentScore ELSE 0)

\* analyzePageSecurity(pageData), part_003 lines 250-324
PageSecurityFlags(pageResult, contentScore) ==
  pageResult.flags
  \o FlagWhen(contentScore >= CONTENT_BLOCK_SCORE, "content_violation", contentScore)

PageSecurityScore(pageResult, contentScore) ==
  Max2(Max2(0, pageResult.threatScore),
       IF contentScore >= CONTENT_BLOCK_SCORE THEN contentScore ELSE 0)

PageStatsAfter(stats, isPhishing, contentScore) ==
  [stats EXCEPT
     !.phishingDetected = IF isPhishing THEN @ + 1 ELSE @,
     !.contentBlocked = IF contentScore >= CONTENT_BLOCK_SCORE THEN @ + 1 ELSE @]

PageSecurityWhitelisted(page) ==
  /\ isWhitelisted(securityWhitelist, PageDomainOf[page])
  /\ secCall' = SecCallOf("page", calls + 1, PageDomainOf[page],
                          [SecurityResultInit(page.url, now) EXCEPT !.isWhitelisted = TRUE])
  /\ analyzerCall' = NoCall
  /\ UNCHANGED <<pageAnalysisCache, securityStats, resultsCreated>>

PageSecurityAnalyzed(page) ==
  /\ ~isWhitelisted(securityWhitelist, PageDomainOf[page])
  /\ AnalyzePageCall(page, calls + 1)
  /\ secCall' =
       SecCallOf("page", calls + 1, PageDomainOf[page],
                 SecurityResult(page.url, now, analyzePageReturn(page).isPhishing,
                                PageSecurityFlags(analyzePageReturn(page),
                                                  PageContentTable[contentData, page]),
                                PageSecurityScore(analyzePageReturn(page),
                                                  PageContentTable[contentData, page])))
  /\ securityStats' = PageStatsAfter(securityStats, analyzePageReturn(page).isPhishing,
                                     PageContentTable[contentData, page])

\* part_003 line 252: pageData.url is read before the try block, so a call
\* without page data (undefined or null) rejects with a TypeError
PageSecurityMissing ==
  /\ secCall' = [serial |-> calls + 1, op |-> "rejected", domain |-> "",
                 fn |-> "analyzePageSecurity"]
  /\ analyzerCall' = NoCall
  /\ UNCHANGED <<pageAnalysisCache, securityStats, resultsCreated>>

AnalyzePageSecurity ==
  /\ calls < MaxCalls
  /\ calls' = calls + 1
  /\ \/ PageSecurityMissing
     \/ \E page \in Pages :
          \/ PageSecurityWhitelisted(page)
          \/ PageSecurityAnalyzed(page)
  /\ UNCHANGED <<now, securityInitialized, urlData, phishingData, contentData,
                 privacyData, urlAnalysisCache, contentFilterCache,
                 subdomainDepthLastIndex, securityWhitelist, storage, firstCall,
                 nonSecVars>>

Next ==
  \/ Tick
  \/ InitializeSecurity
  \/ AddToWhitelist
  \/ RemoveFromWhitelist
  \/ AnalyzeUrl
  \/ ClearUrlAnalysisCache
  \/ AnalyzePage
  \/ ClearPageAnalysisCache
  \/ AnalyzeUrlSecurity
  \/ AnalyzePageSecurity

(***************************************************************************)
(* Harness for BloomFilter: a filter of some size and hashCount is built   *)
(* and filled by add, addAll and clear; then it is serialized once and the *)
(* data is deserialized.                                                   *)
(***************************************************************************)
MaxBloomSize == 9
MaxHashCount == 3
MaxBloomAdds == 3
BloomBatches == SeqsUpTo({<<"a">>, <<".", "a">>}, 2)
NoData == [size |-> 0]
NoFilter == [size |-> 0]

LevIdle ==
  /\ lvA = <<>> /\ lvB = <<>> /\ lvC = <<>> /\ lvPc = "idle"
  /\ lvAB = 0 /\ lvBA = 0 /\ lvAA = 0 /\ lvAC = 0 /\ lvBC = 0

BloomIdle ==
  /\ bf = NoFilter /\ bfAdded = {} /\ bfData = NoData
  /\ bfSource = NoFilter /\ bfCopy = NoFilter

BloomInit ==
  /\ LevIdle
  /\ SecInit
  /\ pfIn = [fn |-> "none"] /\ pfOut = [fn |-> "none"]
  /\ \E size \in 1..MaxBloomSize, hashCount \in 0..MaxHashCount :
       bf = NewBloomFilter(size, hashCount)
  /\ bfAdded = {}
  /\ bfData = NoData
  /\ bfSource = NoFilter
  /\ bfCopy = NoFilter

BloomAdd ==
  /\ bfData = NoData
  /\ bf.itemCount < MaxBloomAdds
  /\ \E item \in BloomItems :
       /\ bf' = BloomAddItem(bf, item)
       /\ bfAdded' = bfAdded \cup {item}
  /\ UNCHANGED <<bfData, bfSource, bfCopy, nonBloomVars>>

BloomAddAll ==
  /\ bfData = NoData
  /\ \E items \in BloomBatches :
       /\ bf.itemCount + Len(items) <= MaxBloomAdds
       /\ bf' = BloomAddAllItems(bf, items, 1)
       /\ bfAdded' = bfAdded \cup {items[k] : k \in 1..Len(items)}
  /\ UNCHANGED <<bfData, bfSource, bfCopy, nonBloomVars>>

\* clear(), lines 694-698
BloomClear ==
  /\ bfData = NoData
  /\ bf.itemCount > 0
  /\ bf' = [bf EXCEPT !.bitArray = [i \in 1..((bf.size + 7) \div 8) |-> 0],
                      !.itemCount = 0]
  /\ bfAdded' = {}
  /\ UNCHANGED <<bfData, bfSource, bfCopy, nonBloomVars>>

BloomDoSerialize ==
  /\ bfData = NoData
  /\ bfData' = BloomSerialize(bf)
  /\ bfSource' = bf
  /\ UNCHANGED <<bf, bfAdded, bfCopy, nonBloomVars>>

BloomDoDeserialize ==
  /\ bfData # NoData
  /\ bfCopy' = BloomDeserialize(bfData)
  /\ UNCHANGED <<bf, bfAdded, bfData, bfSource, nonBloomVars>>

BloomNext ==
  \/ BloomAdd \/ BloomAddAll \/ BloomClear
  \/ BloomDoSerialize \/ BloomDoDeserialize

(***************************************************************************)
(* Harness for levenshteinDistance: three strings are drawn, then the      *)
(* function is applied to the pairs.                                       *)
(***************************************************************************)
MaxLevLen == 3
LevAlphabet == {"a", "b"}
LevStrings == SeqsUpTo(LevAlphabet, MaxLevLen)

LevInit ==
  /\ BloomIdle
  /\ SecInit
  /\ pfIn = [fn |-> "none"] /\ pfOut = [fn |-> "none"]
  /\ lvA \in LevStrings /\ lvB \in LevStrings /\ lvC \in LevStrings
  /\ lvPc = "init"
  /\ lvAB = 0 /\ lvBA = 0 /\ lvAA = 0 /\ lvAC = 0 /\ lvBC = 0

LevCompute ==
  /\ lvPc = "init"
  /\ lvAB' = levenshteinDistance(lvA, lvB)
  /\ lvBA' = levenshteinDistance(lvB, lvA)
  /\ lvAA' = levenshteinDistance(lvA, lvA)
  /\ lvAC' = levenshteinDistance(lvA, lvC)
  /\ lvBC' = levenshteinDistance(lvB, lvC)
  /\ lvPc' = "done"
  /\ UNCHANGED <<lvA, lvB, lvC, nonLevVars>>

LevNext == LevCompute

SpecLev == LevInit /\ [][LevNext]_vars

SpecBloom == BloomInit /\ [][BloomNext]_vars

(***************************************************************************)
(* Single applications of the detectors: an input is drawn, the function   *)
(* is applied to it once with the module state the input names.            *)
(***************************************************************************)
NoInput == [fn |-> "none"]
NoOutput == [fn |-> "none"]
PureIdle == pfIn = NoInput /\ pfOut = NoOutput

\* the URLs analyzeUrl is applied to: those of the calls above, the worked
\* cases of the specification and their variants
PureUrls ==
  Urls \cup {"http://paypaI-secure-login.tk/account", "http://paypa1-secure-login.tk/account",
             "http://paypaI-secure-login.tk", "https://example.com",
             "http://paypa1.tk/a--b@c", "https://a.b.c.d.bit.ly/x.exe",
             "https://BAD.org/"}

PureParsed == [u \in PureUrls |-> ParseUrl(u)]

PureUrlTable ==
  [d \in UrlDataStates, u \in PureUrls, lastIndex \in LastIndexes |->
     ComputeUrlResult(d, u, lastIndex, 0, 0)]

PureUrlInputs ==
  {[fn |-> "analyzeUrl", url |-> u, data |-> d, lastIndex |-> i] :
     u \in PureUrls, d \in UrlDataStates, i \in LastIndexes}

\* pages with a login form that posts the password to an IPv4 address over
\* http: on a site, on the address itself, in a file opened from disk
IpForm ==
  [action |-> "http://203.0.113.5/collect",
   inputs |-> <<[type |-> "text", name |-> "user"], [type |-> "password", name |-> "pw"]>>]
PageIpForm == [PageEmpty EXCEPT !.url = "https://ok.org/login", !.forms = <<IpForm>>]
PageIpSelf == [PageEmpty EXCEPT !.url = "http://203.0.113.5/", !.forms = <<IpForm>>]
PageIpLocalFile == [PageEmpty EXCEPT !.url = "file:///a.html", !.forms = <<IpForm>>]

PurePages == Pages \cup {PageIpForm, PageIpSelf, PageIpLocalFile}

PurePageTable ==
  [d \in PhishingDataStates, p \in PurePages |->
     PageResult(p, PageDomain(p), PageAssessmentWith(d, p, PageDomain(p)), 0, 0)]

PurePageInputs ==
  {[fn |-> "analyzePage", page |-> p, data |-> d] :
     p \in PurePages, d \in PhishingDataStates}

\* settings a user can save: every category on with adult at medium
\* strictness, and only piracy off
ContentAllEnabled ==
  [adultKeywords |-> AdultKeywordsData,
   contentFilterSettings |->
     [c \in DOMAIN DEFAULT_CONTENT_SETTINGS |-> [enabled |-> TRUE, strictness |-> "medium"]]]
ContentPiracyOff ==
  [ContentAllEnabled EXCEPT !.contentFilterSettings.piracy.enabled = FALSE,
                            !.contentFilterSettings.adult.strictness = "high"]
PureContentStates == ContentStates \cup {ContentAllEnabled, ContentPiracyOff}

\* pages by the keywords of their title and text
TextPage(title, text) == [PageEmpty EXCEPT !.title = title, !.textContent = text]
ContentPages ==
  {PageEmpty, PageMedium,
   TextPage("", "casino Casino"),
   TextPage("casino", "casino casino"),
   TextPage("Casino", "casino, casino. casinos CASINO"),
   TextPage("", "gore gore gore gore gore"),
   TextPage("gore", "gore gore gore gore gore"),
   TextPage("", "weed weed weed torrent torrent torrent"),
   TextPage("adult", "adult adult xxx"),
   TextPage("xxx adult", "xxx xxx xxx xxx casino casino casino casino casino weed weed weed weed weed"),
   TextPage("", "torrent torrent torrent torrent")}

PureContentTable ==
  [c \in PureContentStates, p \in ContentPages |-> PageContentResult(c, p)]

PureContentInputs ==
  {[fn |-> "analyzePageContent", page |-> p, content |-> c] :
     p \in ContentPages, c \in PureContentStates}

\* pages for the page coordinator: a page without indicators at a listed
\* URL, and a page whose indicators and whose text both score
PageListedUrl == [PageEmpty EXCEPT !.url = "http://evil.tk/login"]
PageBoth ==
  [PageEmpty EXCEPT !.url = "http://x.tk", !.title = "xxx adult",
                    !.textContent = "xxx xxx xxx Act now",
                    !.forms = <<[action |-> "", inputs |-> <<[type |-> "password",
                                                              name |-> "p"]>>]>>]
PureSecPages == {PageEmpty, PagePhishing, PageMedium, PageListedUrl, PageBoth}
SecDataStates ==
  {[url |-> UrlDataLoaded, phishing |-> PhishingDataLoaded, content |-> ContentLoaded],
   [url |-> UrlDataUnloaded, phishing |-> PhishingDataUnloaded, content |-> ContentUnloaded],
   [url |-> UrlDataLoaded, phishing |-> PhishingDataLoaded, content |-> ContentDefaultsOnly]}

\* analyzePageSecurity for a page that is neither whitelisted nor cached,
\* part_003 lines 280-317
PageSecurityOf(page, pageResult, contentScore) ==
  SecurityResult(page.url, 0, pageResult.isPhishing,
                 PageSecurityFlags(pageResult, contentScore),
                 PageSecurityScore(pageResult, contentScore))

PureSecTable ==
  [d \in SecDataStates, p \in PureSecPages |->
     PageSecurityOf(p,
                    PageResult(p, PageDomain(p),
                               PageAssessmentWith(d.phishing, p, PageDomain(p)), 0, 0),
                    analyzePageContent(d.content, p))]

PureSecInputs ==
  {[fn |-> "analyzePageSecurity", page |-> p, data |-> d] :
     p \in PureSecPages, d \in SecDataStates}

\* malicious-domain data with a pattern that does not compile ahead of two
\* that do, the second of which also matches a listed domain
MaliciousWithInvalidPattern ==
  [MaliciousDomainsData EXCEPT
     !.patterns = <<[pattern |-> "*gift", type |-> "malware", score |-> 90],
                    [pattern |-> "free.*gift", type |-> "scam", score |-> 60],
                    [pattern |-> "e.*i", type |-> "phishing", score |-> 70]>>]
MaliciousDataStates == {Null, MaliciousDomainsData, MaliciousWithInvalidPattern}

MaliciousDomainInputs ==
  {"", "evil.tk", "EVIL.tk", "bad.org", "a.evil.tk", "free-gift.ru", "mygift.com",
   "paypal.com"}

PureMaliciousTable ==
  [d \in MaliciousDataStates, h \in MaliciousDomainInputs |->
     CheckMaliciousDomainWith(d, h)]

PureMaliciousInputs ==
  {[fn |-> "checkMaliciousDomain", domain |-> h, data |-> d] :
     h \in MaliciousDomainInputs, d \in MaliciousDataStates}

\* a brand database with two keywords for one brand, two brands whose
\* keywords are one edit apart, a three-letter keyword and a legitimate
\* domain that is itself one edit from the keyword
BrandDatabaseWide ==
  [brands |-> <<[name |-> "PayPal", keywords |-> <<"paypal", "pypl">>,
                 legitimateDomains |-> <<"paypal.com", "*.paypal.com", "paypa.com">>,
                 priority |-> "critical"],
                [name |-> "Payall", keywords |-> <<"payall">>,
                 legitimateDomains |-> <<"payall.com">>,
                 priority |-> "low"],
                [name |-> "UPS", keywords |-> <<"ups">>,
                 legitimateDomains |-> <<"ups.com">>,
                 priority |-> "high"]>>]
BrandDataStates == {Null, BrandDatabaseData, BrandDatabaseWide}

TypoDomainInputs ==
  {"", "paypal.com", "paypa1.com", "paypll.com", "paypa.com", "www.paypal.com",
   "pyp1.com", "dropbx.io", "example.org", "localhost", "PAYPAL.com", "payal.co.uk"}

PureTypoTable ==
  [d \in BrandDataStates, h \in TypoDomainInputs |-> DetectTyposquattingWith(d, h)]

PureTypoInputs ==
  {[fn |-> "detectTyposquatting", domain |-> h, data |-> d] :
     h \in TypoDomainInputs, d \in BrandDataStates}

\* the remaining detectors, each with its module state loaded, not loaded
\* and as an initialisation that is under way or has failed leaves it
ContentKeywordsOnly == [adultKeywords |-> AdultKeywordsData, contentFilterSettings |-> Null]
PrivacyDomainsOnly ==
  [trackerDomains |-> TrackerDomainsData, privacySettings |-> Null,
   trackerBloomFilter |-> Null]
DetectorContentStates == ContentStates \cup {ContentKeywordsOnly}
DetectorPrivacyStates == PrivacyStates \cup {PrivacyDomainsOnly}

\* isTrackerDomain with privacySettings.blockTrackers for the optional chain
\* of line 97: the read throws while the settings are not loaded
MutTrackerNoOptionalChain(privacy, domain) ==
  IF privacy.trackerDomains = Null THEN NoTracker
  ELSE IF privacy.privacySettings = Null THEN [threw |-> "TypeError"]
  ELSE TrackerCheck(TRUE, privacy.privacySettings, domain,
                    TrackerFacts(privacy.trackerDomains, privacy.trackerBloomFilter,
                                 ToLowerCase(domain)))

\* isTrackerDomain(domain), part_002 lines 90-139, on a module state
TrackerResultWith(privacy, domain) ==
  IF privacy.trackerDomains = Null \/ privacy.privacySettings = Null THEN NoTracker
  ELSE TrackerCheck(TRUE, privacy.privacySettings, domain,
                    TrackerFacts(privacy.trackerDomains, privacy.trackerBloomFilter,
                                 ToLowerCase(domain)))

PureDetectorInputs ==
  {[fn |-> "detectHomograph", domain |-> h, urlData |-> d] :
     h \in {"p~ypal.com", "paypa1.com", "example.org"}, d \in UrlDataStates}
  \cup {[fn |-> "assessTldRisk", tld |-> t, urlData |-> d] :
          t \in {".tk", ".TK", ".onion", ".com"}, d \in UrlDataStates}
  \cup {[fn |-> "isTrackerDomain", domain |-> h, privacy |-> d] :
          h \in {"stats.io", "cdn.bit.ly", "example.org"}, d \in DetectorPrivacyStates}
  \cup {[fn |-> "checkDomainBlocklist", domain |-> h, content |-> d] :
          h \in {"site.xxx", "win.bet", "example.org"}, d \in DetectorContentStates}
  \cup {[fn |-> "analyzeUrlKeywords", url |-> u, content |-> d] :
          u \in {"https://xxx.example/adult", "https://example.org/"},
          d \in DetectorContentStates}
  \cup {[fn |-> "detectBrandImpersonation", page |-> p, phishing |-> d] :
          p \in {PagePhishing, PageEmpty}, d \in PhishingDataStates}
  \cup {[fn |-> "detectUrgencyLanguage", text |-> t, phishing |-> d] :
          t \in {"Act now: verify your account", "hello"}, d \in PhishingDataStates}

\* what the detector named by the input returns for it
DetectorValue(in) ==
  CASE in.fn = "detectHomograph" ->
         DetectHomographWith(in.urlData.homoglyphMap, in.urlData.brandDatabase, in.domain)
    [] in.fn = "assessTldRisk" -> AssessTldRiskWith(in.urlData.tldRiskScores, in.tld)
    [] in.fn = "isTrackerDomain" -> TrackerResultWith(in.privacy, in.domain)
    [] in.fn = "checkDomainBlocklist" -> checkDomainBlocklist(in.content, in.domain)
    [] in.fn = "analyzeUrlKeywords" -> analyzeUrlKeywords(in.content, in.url)
    [] in.fn = "detectBrandImpersonation" ->
         DetectBrandImpersonationWith(in.phishing.brandDatabasePhishing, in.page,
                                      PageDomain(in.page))
    [] in.fn = "detectUrgencyLanguage" ->
         DetectUrgencyLanguageWith(in.phishing.phishingPatterns, in.text)

PureDetectorTable == [in \in PureDetectorInputs |-> DetectorValue(in)]

PureInputs ==
  PureUrlInputs \cup PurePageInputs \cup PureContentInputs \cup PureSecInputs
  \cup PureMaliciousInputs \cup PureTypoInputs \cup PureDetectorInputs

PureInit ==
  /\ LevIdle /\ BloomIdle /\ SecInit
  /\ pfIn \in PureInputs
  /\ pfOut = NoOutput

\* analyzeUrl(url) on a URL that is not cached, contentFilter.js lines 956-1064
PureAnalyzeUrl ==
  /\ pfIn.fn = "analyzeUrl" /\ pfOut = NoOutput
  /\ pfOut' = [fn |-> "analyzeUrl",
               value |-> PureUrlTable[pfIn.data, pfIn.url, pfIn.lastIndex]]
  /\ UNCHANGED <<pfIn, nonPureVars>>

\* analyzePage(pageData) on a page that is not cached, part_001 lines 565-613
PureAnalyzePage ==
  /\ pfIn.fn = "analyzePage" /\ pfOut = NoOutput
  /\ pfOut' = [fn |-> "analyzePage", value |-> PurePageTable[pfIn.data, pfIn.page]]
  /\ UNCHANGED <<pfIn, nonPureVars>>

\* analyzePageContent(pageData), contentFilter.js lines 335-390
PureAnalyzePageContent ==
  /\ pfIn.fn = "analyzePageContent" /\ pfOut = NoOutput
  /\ pfOut' = [fn |-> "analyzePageContent",
               value |-> PureContentTable[pfIn.content, pfIn.page]]
  /\ UNCHANGED <<pfIn, nonPureVars>>

\* analyzePageSecurity(pageData) with an empty whitelist and empty caches,
\* part_003 lines 250-324
PureAnalyzePageSecurity ==
  /\ pfIn.fn = "analyzePageSecurity" /\ pfOut = NoOutput
  /\ pfOut' = [fn |-> "analyzePageSecurity", value |-> PureSecTable[pfIn.data, pfIn.page]]
  /\ UNCHANGED <<pfIn, nonPureVars>>

\* checkMaliciousDomain(domain), contentFilter.js lines 904-941
PureCheckMaliciousDomain ==
  /\ pfIn.fn = "checkMaliciousDomain" /\ pfOut = NoOutput
  /\ pfOut' = [fn |-> "checkMaliciousDomain",
               value |-> PureMaliciousTable[pfIn.data, pfIn.domain]]
  /\ UNCHANGED <<pfIn, nonPureVars>>

\* detectTyposquatting(domain), contentFilter.js lines 659-707
PureDetectTyposquatting ==
  /\ pfIn.fn = "detectTyposquatting" /\ pfOut = NoOutput
  /\ pfOut' = [fn |-> "detectTyposquatting",
               value |-> PureTypoTable[pfIn.data, pfIn.domain]]
  /\ UNCHANGED <<pfIn, nonPureVars>>

\* one call of the detector fn on the input drawn
PureDetectorApplied ==
  /\ pfOut = NoOutput
  /\ pfOut' = [fn |-> pfIn.fn, value |-> PureDetectorTable[pfIn]]
  /\ UNCHANGED <<pfIn, nonPureVars>>

\* detectHomograph(domain), contentFilter.js lines 571-652
PureDetectHomograph == pfIn.fn = "detectHomograph" /\ PureDetectorApplied
\* assessTldRisk(tld), contentFilter.js lines 813-869
PureAssessTldRisk == pfIn.fn = "assessTldRisk" /\ PureDetectorApplied
\* isTrackerDomain(domain), part_002 lines 90-139
PureIsTrackerDomain == pfIn.fn = "isTrackerDomain" /\ PureDetectorApplied
\* checkDomainBlocklist(domain), contentFilter.js lines 59-97
PureCheckDomainBlocklist == pfIn.fn = "checkDomainBlocklist" /\ PureDetectorApplied
\* analyzeUrlKeywords(url), contentFilter.js lines 104-182
PureAnalyzeUrlKeywords == pfIn.fn = "analyzeUrlKeywords" /\ PureDetectorApplied
\* detectBrandImpersonation(pageData, currentDomain), part_001 lines 177-293
PureDetectBrandImpersonation == pfIn.fn = "detectBrandImpersonation" /\ PureDetectorApplied
\* detectUrgencyLanguage(textContent), part_001 lines 300-397
PureDetectUrgencyLanguage == pfIn.fn = "detectUrgencyLanguage" /\ PureDetectorApplied

PureNext ==
  \/ PureAnalyzeUrl
  \/ PureAnalyzePage
  \/ PureAnalyzePageContent
  \/ PureAnalyzePageSecurity
  \/ PureCheckMaliciousDomain
  \/ PureDetectTyposquatting
  \/ PureDetectHomograph
  \/ PureAssessTldRisk
  \/ PureIsTrackerDomain
  \/ PureCheckDomainBlocklist
  \/ PureAnalyzeUrlKeywords
  \/ PureDetectBrandImpersonation
  \/ PureDetectUrgencyLanguage

SpecPure == PureInit /\ [][PureNext]_vars

(***************************************************************************)
(* Repeated calls of the detectors on one loaded module: the pattern       *)
(* objects of SUSPICIOUS_PATTERNS are shared by all calls, the reference   *)
(* data is fixed.  firstCall keeps what the first call with an input       *)
(* returned.                                                               *)
(***************************************************************************)
MaxDetectorCalls == 3

DetectorUrls ==
  {"https://example.com", "https://www.paypal.com/signin", "https://a.b.c.d.bit.ly/x.exe",
   "http://evil.tk/login", "http://paypa1.tk/a--b@c", "not a url"}
DetectorDomains == {"paypa1.com", "paypal.com", "example.org"}

\* the values lastIndex of the subdomain_depth pattern takes on these URLs
DetectorLastIndexes ==
  {0} \cup {SubdomainDepthEnd(ToLowerCase(u), 0) : u \in DetectorUrls}

\* what analyzeSuspiciousPatterns returns and the lastIndex it leaves
DetectorPatternsTable ==
  [u \in DetectorUrls, lastIndex \in DetectorLastIndexes |->
     AnalyzeSuspiciousPatternsWith(BrandDatabaseData, u, lastIndex)]

DetectorsInit ==
  /\ LevIdle /\ BloomIdle /\ SecInit /\ PureIdle

DetectorVarsKept ==
  <<levVars, bloomVars, wlVars, dynamicRules, extraVars, now, securityInitialized, urlData,
    phishingData, contentData, privacyData, urlAnalysisCache, pageAnalysisCache,
    contentFilterCache, securityWhitelist, securityStats, storage, resultsCreated,
    analyzerCall, secCall>>

DetectorCalled(input, value) ==
  /\ calls < MaxDetectorCalls
  /\ calls' = calls + 1
  /\ pfIn' = input
  /\ pfOut' = [fn |-> input.fn, value |-> value]
  /\ firstCall' = IF input \in DOMAIN firstCall THEN firstCall
                  ELSE MapPut(firstCall, input, value)

\* analyzeSuspiciousPatterns(url), contentFilter.js lines 714-806
DetAnalyzeSuspiciousPatterns ==
  \E url \in DetectorUrls :
    /\ DetectorCalled(
         [fn |-> "analyzeSuspiciousPatterns", url |-> url],
         [suspiciousPatterns |->
            DetectorPatternsTable[url, subdomainDepthLastIndex].suspiciousPatterns,
          totalScore |-> DetectorPatternsTable[url, subdomainDepthLastIndex].totalScore])
    /\ subdomainDepthLastIndex' =
         DetectorPatternsTable[url, subdomainDepthLastIndex].lastIndex
    /\ UNCHANGED DetectorVarsKept

\* detectTyposquatting(domain), contentFilter.js lines 659-707
DetDetectTyposquatting ==
  \E domain \in DetectorDomains :
    /\ DetectorCalled([fn |-> "detectTyposquatting", domain |-> domain],
                      PureTypoTable[BrandDatabaseData, domain])
    /\ UNCHANGED <<subdomainDepthLastIndex, DetectorVarsKept>>

\* checkMaliciousDomain(domain), contentFilter.js lines 904-941
DetCheckMaliciousDomain ==
  \E domain \in {"evil.tk", "paypal.com"} :
    /\ DetectorCalled([fn |-> "checkMaliciousDomain", domain |-> domain],
                      PureMaliciousTable[MaliciousDomainsData, domain])
    /\ UNCHANGED <<subdomainDepthLastIndex, DetectorVarsKept>>

DetectorsNext ==
  \/ DetAnalyzeSuspiciousPatterns
  \/ DetDetectTyposquatting
  \/ DetCheckMaliciousDomain

SpecDetectors == DetectorsInit /\ [][DetectorsNext]_vars

(***************************************************************************)
(* The two analysis caches near their sweep thresholds.  The module has    *)
(* analysed many URLs and pages of one site before: the caches hold their  *)
(* results, stored at time 0, at time 1, one URL window before the calls   *)
(* and at the time of the calls, a quarter each.  The calls are those of   *)
(* the modules above, made at one time.                                    *)
(***************************************************************************)
CacheStartTime == 600001

FillerUrl(i) == "https://site.example/" \o ToString(i)

FillerStamp(i) ==
  CASE i % 4 = 0 -> 0
    [] i % 4 = 1 -> 1
    [] i % 4 = 2 -> CacheStartTime - CACHE_EXPIRY_URL_ANALYSIS
    [] OTHER -> CacheStartTime

\* analyzeUrl's result for a URL of the site, which differs between the
\* URLs of the site in url, timestamp and id only
FillerUrlResult == ComputeUrlResult(UrlDataLoaded, FillerUrl(1), 0, 0, 0)

FilledUrlCache(n) ==
  [u \in {FillerUrl(i) : i \in 1..n} |->
     LET i == CHOOSE j \in 1..n : FillerUrl(j) = u
     IN  [result |-> [FillerUrlResult EXCEPT !.url = u, !.timestamp = FillerStamp(i),
                                             !.id = i],
          timestamp |-> FillerStamp(i)]]

\* analyzePage's result for a page of the site without content
FillerPageResult ==
  PageResult([PageEmpty EXCEPT !.url = FillerUrl(1)], "site.example",
             PageAssessmentWith(PhishingDataLoaded, PageEmpty, "site.example"), 0, 0)

FilledPageCache(n, m) ==
  [k \in {<<FillerUrl(i), FillerStamp(i)>> : i \in 1..m} |->
     [result |-> [FillerPageResult EXCEPT !.url = k[1], !.timestamp = k[2],
                                          !.id = n + 1],
      timestamp |-> k[2]]]

\* how many results the caches hold at the start
CacheFills ==
  {[urls |-> URL_CACHE_MAX - 1, pages |-> PAGE_CACHE_MAX - 1],
   [urls |-> URL_CACHE_MAX, pages |-> PAGE_CACHE_MAX]}

FilledCaches ==
  [f \in CacheFills |->
     [urls |-> FilledUrlCache(f.urls), pages |-> FilledPageCache(f.urls, f.pages)]]

CacheInit ==
  /\ LevIdle /\ BloomIdle /\ PureIdle
  /\ now = CacheStartTime
  /\ securityInitialized = TRUE
  /\ urlData = UrlDataLoaded
  /\ phishingData = PhishingDataLoaded
  /\ contentData = ContentLoaded
  /\ privacyData = PrivacyLoaded
  /\ \E f \in CacheFills :
       /\ urlAnalysisCache = FilledCaches[f].urls
       /\ pageAnalysisCache = FilledCaches[f].pages
       /\ resultsCreated = f.urls + f.pages
  /\ contentFilterCache = EmptyMap
  /\ subdomainDepthLastIndex = 0
  /\ securityWhitelist = <<>>
  /\ securityStats = StoredStats
  /\ storage = [whitelist |-> <<>>, stats |-> StoredStats]
  /\ calls = 0
  /\ analyzerCall = NoCall
  /\ secCall = NoCall
  /\ firstCall = EmptyMap
  /\ wlCalls = <<>> /\ storageQueue = <<>>
  /\ dynamicRules = <<>>
  /\ ExtraIdle

CacheNext ==
  \/ AnalyzeUrl
  \/ AnalyzePage

SpecCache == CacheInit /\ [][CacheNext]_vars

(***************************************************************************)
(* Many calls of the two coordinators on the initialised modules, at one   *)
(* time and with an empty whitelist.  unsavedCalls counts, per entry       *)
(* point, the calls it has made since one of them changed a counter that   *)
(* storage does not hold yet, that call included.                          *)
(***************************************************************************)
MaxStatsCalls == 12

StatsUrls == {"http://evil.tk/login"}
StatsPages == {PageEmpty, PagePhishing}

UrlCountersStored(stats, stored) ==
  /\ stats.urlsAnalyzed = stored.urlsAnalyzed
  /\ stats.threatsBlocked = stored.threatsBlocked

PageCountersStored(stats, stored) ==
  /\ stats.phishingDetected = stored.phishingDetected
  /\ stats.contentBlocked = stored.contentBlocked

\* the modules after initializeSecurity has loaded everything, the
\* statistics read from storage
StatsInit ==
  /\ LevIdle /\ BloomIdle /\ PureIdle
  /\ now = 0
  /\ securityInitialized = TRUE
  /\ urlData = UrlDataLoaded
  /\ phishingData = PhishingDataLoaded
  /\ contentData = ContentLoaded
  /\ privacyData = PrivacyLoaded
  /\ urlAnalysisCache = EmptyMap
  /\ pageAnalysisCache = EmptyMap
  /\ contentFilterCache = EmptyMap
  /\ subdomainDepthLastIndex = 0
  /\ securityWhitelist = <<>>
  /\ securityStats = StoredStats
  /\ storage = [whitelist |-> <<>>, stats |-> StoredStats]
  /\ resultsCreated = 0
  /\ calls = 0
  /\ analyzerCall = NoCall
  /\ secCall = NoCall
  /\ firstCall = EmptyMap
  /\ wlCalls = <<>> /\ storageQueue = <<>>
  /\ dynamicRules = <<>>
  /\ ExtraIdle

StatsVarsKept ==
  <<levVars, bloomVars, pureVars, wlVars, dynamicRules, now, securityInitialized, urlData,
    phishingData, contentData, privacyData, securityWhitelist, sessionVars>>

\* analyzeUrlSecurity(url), part_003 lines 156-242
StAnalyzeUrlSecurity ==
  /\ calls < MaxStatsCalls
  /\ calls' = calls + 1
  /\ \E url \in StatsUrls : UrlSecurityAnalyzed(url)
  /\ unsavedCalls' =
       [url |-> IF UrlCountersStored(securityStats', storage'.stats) THEN 0
                ELSE unsavedCalls.url + 1,
        page |-> IF PageCountersStored(securityStats', storage'.stats) THEN 0
                 ELSE unsavedCalls.page]
  /\ UNCHANGED <<pageAnalysisCache, StatsVarsKept>>

\* analyzePageSecurity(pageData), part_003 lines 250-324
StAnalyzePageSecurity ==
  /\ calls < MaxStatsCalls
  /\ calls' = calls + 1
  /\ \E page \in StatsPages : PageSecurityAnalyzed(page)
  /\ unsavedCalls' =
       [unsavedCalls EXCEPT
          !.page = IF PageCountersStored(securityStats', storage.stats) THEN 0
                   ELSE @ + 1]
  /\ UNCHANGED <<urlAnalysisCache, contentFilterCache, subdomainDepthLastIndex, storage,
                 firstCall, StatsVarsKept>>

StatsNext ==
  \/ StAnalyzeUrlSecurity
  \/ StAnalyzePageSecurity

SpecStats == StatsInit /\ [][StatsNext]_vars

(***************************************************************************)
(* The whitelist operations of part_003 with their await points.  A call   *)
(* runs to its await in one step; chrome.storage.local takes the items of  *)
(* a set when it is called and completes its operations in the order they  *)
(* were issued, and each completion resumes its caller.                    *)
(***************************************************************************)
MaxWlCalls == 3

WlInputs == WhitelistInputs \cup {"paypal.com"}
WlNormalized == [w \in WlInputs |-> NormalizeWhitelistDomain(w)]
WlLowered == [w \in WlInputs |-> ToLowerCase(w)]

\* the whitelist an earlier session left in storage
StoredWhitelists == {<<>>, <<"*.ok.org">>}

WlInit ==
  /\ LevIdle /\ BloomIdle /\ PureIdle /\ SecFresh
  /\ \E w \in StoredWhitelists : storage = [whitelist |-> w, stats |-> StoredStats]
  /\ wlCalls = <<>> /\ storageQueue = <<>>
  /\ dynamicRules = <<>>
  /\ ExtraIdle

\* Array.prototype.indexOf: the first index of x, 0 for -1
IndexOfEntry(list, x) ==
  IF \E i \in 1..Len(list) : list[i] = x
  THEN CHOOSE i \in 1..Len(list) : list[i] = x /\ \A j \in 1..(i - 1) : list[j] # x
  ELSE 0

\* splice(index, 1)
SpliceOne(list, index) == SubSeq(list, 1, index - 1) \o SubSeq(list, index + 1, Len(list))

\* a call that changed the list issues chrome.storage.local.set with the list
\* as it is now and waits; a call that changed nothing returns
WlMutation(op, list) ==
  /\ securityWhitelist' = list
  /\ IF list # securityWhitelist
     THEN /\ storageQueue' = Append(storageQueue,
                                    [kind |-> "set", call |-> Len(wlCalls) + 1,
                                     items |-> list])
          /\ wlCalls' = Append(wlCalls, [op |-> op, pc |-> "storage"])
     ELSE /\ storageQueue' = storageQueue
          /\ wlCalls' = Append(wlCalls, [op |-> op, pc |-> "done"])
  /\ UNCHANGED <<securityInitialized, urlData, phishingData, contentData, privacyData,
                 securityStats, storage, nonWlVars>>

\* addToWhitelist(domain) up to its await, part_003 lines 97-106
WlAddCall ==
  /\ Len(wlCalls) < MaxWlCalls
  /\ \E w \in WlInputs :
       WlMutation("add",
                  IF IndexOfEntry(securityWhitelist, WlNormalized[w]) = 0
                  THEN Append(securityWhitelist, WlNormalized[w])
                  ELSE securityWhitelist)

\* removeFromWhitelist(domain) up to its await, part_003 lines 122-132
WlRemoveCall ==
  /\ Len(wlCalls) < MaxWlCalls
  /\ \E w \in WlInputs :
       WlMutation("remove",
                  IF IndexOfEntry(securityWhitelist, WlLowered[w]) = 0
                  THEN securityWhitelist
                  ELSE SpliceOne(securityWhitelist,
                                 IndexOfEntry(securityWhitelist, WlLowered[w])))

\* initializeSecurity() up to its first await, part_003 lines 23-36
WlInitCall ==
  /\ Len(wlCalls) < MaxWlCalls
  /\ ~securityInitialized
  /\ storageQueue' = Append(storageQueue, [kind |-> "get", call |-> Len(wlCalls) + 1,
                                           items |-> <<>>])
  /\ wlCalls' = Append(wlCalls, [op |-> "init", pc |-> "storage"])
  /\ UNCHANGED <<securityInitialized, urlData, phishingData, contentData, privacyData,
                 securityWhitelist, securityStats, storage, nonWlVars>>

\* the oldest storage operation completes and its caller resumes: a set
\* writes its items and the caller returns (lines 107-109, 133-135); a get
\* hands the stored values to initializeSecurity, which assigns them (lines
\* 38-41) and waits for the module initialisations
WlStorageDone ==
  /\ storageQueue # <<>>
  /\ storageQueue' = Tail(storageQueue)
  /\ IF Head(storageQueue).kind = "set"
     THEN /\ storage' = [storage EXCEPT !.whitelist = Head(storageQueue).items]
          /\ wlCalls' = [wlCalls EXCEPT ![Head(storageQueue).call].pc = "done"]
          /\ UNCHANGED <<securityWhitelist, securityStats>>
     ELSE /\ securityWhitelist' = storage.whitelist
          /\ securityStats' = storage.stats
          /\ wlCalls' = [wlCalls EXCEPT ![Head(storageQueue).call].pc = "modules"]
          /\ UNCHANGED storage
  /\ UNCHANGED <<securityInitialized, urlData, phishingData, contentData, privacyData,
                 nonWlVars>>

\* initializeSecurity after Promise.all, lines 44-69
WlInitModulesDone ==
  /\ \E c \in 1..Len(wlCalls) :
       /\ wlCalls[c].pc = "modules"
       /\ wlCalls' = [wlCalls EXCEPT ![c].pc = "done"]
  /\ \E o \in InitOutcomes :
       /\ urlData' = IF o.url THEN UrlDataLoaded ELSE urlData
       /\ phishingData' = IF o.phishing THEN PhishingDataLoaded ELSE phishingData
       /\ contentData' = IF o.content THEN ContentLoaded
                         ELSE [contentData EXCEPT
                                 !.contentFilterSettings = DEFAULT_CONTENT_SETTINGS]
       /\ privacyData' = IF o.privacy THEN PrivacyLoaded ELSE privacyData
       /\ securityInitialized' = (securityInitialized \/ (o.url /\ o.phishing /\ o.privacy))
  /\ UNCHANGED <<securityWhitelist, securityStats, storage, storageQueue, nonWlVars>>

WlNext ==
  \/ WlAddCall
  \/ WlRemoveCall
  \/ WlInitCall
  \/ WlStorageDone
  \/ WlInitModulesDone

SpecWl == WlInit /\ [][WlNext]_vars

(***************************************************************************)
(* The privacy shield of part_002: its settings change with                *)
(* updatePrivacySettings and updateBlockingRules, and isTrackerDomain and  *)
(* getTrackerBlockingRules answer from the settings as they are.           *)
(***************************************************************************)
\* a second tracker list: a domain under two categories, a listed subdomain
TrackerDomainsWide ==
  [analytics |-> <<"stats.io", "cdn.track.net">>, advertising |-> <<"bit.ly", "stats.io">>,
   social |-> <<"ok.org">>, fingerprinting |-> <<"fp.co">>]

\* initTrackerBloomFilter for it: createOptimal(6, 0.01) gives size
\* ceil(6 * 9.585) = 58 and hashCount ceil(9.67 * 0.693) = 7
TrackerBloomFilterWide ==
  TrackerBloomAddAll(NewBloomFilter(58, 7),
    TrackerDomainsWide.analytics \o TrackerDomainsWide.advertising
      \o TrackerDomainsWide.social \o TrackerDomainsWide.fingerprinting, 1)

\* the privacy shield after initPrivacyShield: with either list, without the
\* data when the fetch failed, with the data but no settings when the
\* storage could not be read
PrivacyStarts ==
  {PrivacyLoaded,
   [PrivacyLoaded EXCEPT !.trackerDomains = TrackerDomainsWide,
                         !.trackerBloomFilter = TrackerBloomFilterWide],
   PrivacyUnloaded,
   [PrivacyUnloaded EXCEPT !.trackerDomains = TrackerDomainsWide]}

TrackerQueries ==
  {"", "stats.io", "A.B.Stats.IO", "notstats.io", "bit.ly", "x.ok.org", "fp.co",
   "cdn.track.net", "track.net", "example.com"}

\* what the data of a start says about the queried domains
TrackerFactsTable ==
  [v \in {w \in PrivacyStarts : w.trackerDomains # Null}, h \in TrackerQueries |->
     TrackerFacts(v.trackerDomains, v.trackerBloomFilter, ToLowerCase(h))]

\* the data and the filter never change after the start
PrivacyStartOf(privacy) == [privacy EXCEPT !.privacySettings = Null]
FactsOf(privacy, domain) ==
  IF privacy.trackerDomains = Null THEN [passes |-> TRUE, listed |-> <<>>]
  ELSE TrackerFactsTable[
         CHOOSE v \in PrivacyStarts :
           /\ v.trackerDomains = privacy.trackerDomains
           /\ v.trackerBloomFilter = privacy.trackerBloomFilter,
         domain]

PrivacySettingsInputs ==
  {[blockTrackers |-> FALSE], [blockTrackers |-> TRUE],
   [trackerCategories |-> [social |-> TRUE]]}
BlockingRulesInputs ==
  {EmptyMap, [social |-> TRUE], [analytics |-> FALSE, advertising |-> FALSE]}

PrivacyInit ==
  /\ LevIdle /\ BloomIdle /\ PureIdle /\ SecFresh
  /\ wlCalls = <<>> /\ storageQueue = <<>>
  /\ storage = [whitelist |-> <<>>, stats |-> StoredStats, settings |-> Null]
  /\ dynamicRules = <<>>
  /\ ExtraIdle

\* initPrivacyShield, lines 24-55
PvInitPrivacyShield ==
  /\ privacyData = PrivacyUnloaded /\ pfIn = NoInput
  /\ privacyData' \in PrivacyStarts
  /\ pfIn' = [fn |-> "initPrivacyShield"]
  /\ UNCHANGED <<pfOut, storage, dynamicRules, nonPrivacyVars>>

\* updatePrivacySettings(settings), lines 340-342
PvUpdatePrivacySettings ==
  /\ pfIn # NoInput
  /\ \E settings \in PrivacySettingsInputs :
       /\ privacyData' =
            [privacyData EXCEPT
               !.privacySettings =
                 Spread(IF @ = Null THEN EmptyMap ELSE @, settings)]
       /\ pfIn' = [fn |-> "updatePrivacySettings", settings |-> settings]
  /\ pfOut' = NoOutput
  /\ UNCHANGED <<storage, dynamicRules, nonPrivacyVars>>

\* updateBlockingRules(categories), lines 249-282, on settings that exist:
\* the categories are merged, the settings saved and the rules replaced by
\* those getTrackerBlockingRules gives
BlockingRulesUpdated(categories, settings) ==
  /\ privacyData' = [privacyData EXCEPT !.privacySettings = settings]
  /\ storage' = [storage EXCEPT !.settings = [privacy |-> settings]]
  /\ dynamicRules' = getTrackerBlockingRules(privacyData.trackerDomains, settings)
  /\ pfOut' = [fn |-> "updateBlockingRules", value |-> TRUE]

\* without settings line 252 throws and the call returns false
PvUpdateBlockingRules ==
  /\ pfIn # NoInput
  /\ \E categories \in BlockingRulesInputs :
       /\ pfIn' = [fn |-> "updateBlockingRules", categories |-> categories]
       /\ IF privacyData.privacySettings = Null
          THEN /\ pfOut' = [fn |-> "updateBlockingRules", value |-> FALSE]
               /\ UNCHANGED <<privacyData, storage, dynamicRules>>
          ELSE BlockingRulesUpdated(
                 categories,
                 Spread(privacyData.privacySettings,
                        [trackerCategories |->
                           Spread(IF "trackerCategories" \in DOMAIN privacyData.privacySettings
                                  THEN privacyData.privacySettings.trackerCategories
                                  ELSE EmptyMap,
                                  categories)]))
  /\ UNCHANGED nonPrivacyVars

\* isTrackerDomain(domain), lines 90-139
PvIsTrackerDomain ==
  /\ pfIn # NoInput
  /\ \E domain \in TrackerQueries :
       /\ pfIn' = [fn |-> "isTrackerDomain", domain |-> domain]
       /\ pfOut' = [fn |-> "isTrackerDomain",
                    value |-> TrackerCheck(privacyData.trackerDomains # Null,
                                           privacyData.privacySettings, domain,
                                           FactsOf(privacyData, domain))]
  /\ UNCHANGED <<privacyData, storage, dynamicRules, nonPrivacyVars>>

\* getTrackerBlockingRules(), lines 211-241
PvGetTrackerBlockingRules ==
  /\ pfIn # NoInput
  /\ pfIn' = [fn |-> "getTrackerBlockingRules"]
  /\ pfOut' = [fn |-> "getTrackerBlockingRules",
               value |-> getTrackerBlockingRules(privacyData.trackerDomains,
                                                 privacyData.privacySettings)]
  /\ UNCHANGED <<privacyData, storage, dynamicRules, nonPrivacyVars>>

PrivacyNext ==
  \/ PvInitPrivacyShield
  \/ PvUpdatePrivacySettings
  \/ PvUpdateBlockingRules
  \/ PvIsTrackerDomain
  \/ PvGetTrackerBlockingRules

SpecPrivacy == PrivacyInit /\ [][PrivacyNext]_vars

(***************************************************************************)
(* The settings: updateSecuritySettings (part_003 lines 390-426) with the  *)
(* module setters it calls, and the initialisations that read the stored   *)
(* settings back.                                                          *)
(***************************************************************************)
MaxSettingsCalls == 4
ContentCategories == {"adult", "gambling", "violence", "drugs", "piracy"}

\* saveCategorySettings, part_003 lines 858-868: every category with the
\* state of its checkbox and nothing else
CategoryForm(checked) == [c \in ContentCategories |-> [enabled |-> c \in checked]]

\* the partial settings the callers send
SettingsInputs ==
  {[contentCategories |-> [adult |-> [enabled |-> TRUE]]],
   [contentCategories |-> [gambling |-> [enabled |-> TRUE, strictness |-> "high"]]],
   [contentCategories |-> CategoryForm({"adult", "gambling"})],
   [privacy |-> [blockTrackers |-> FALSE]],
   [privacy |-> [cleanUrls |-> FALSE]],
   [privacy |-> [trackerCategories |-> [social |-> TRUE]]]}

SettingsInit ==
  /\ LevIdle /\ BloomIdle /\ PureIdle /\ SecFresh
  /\ wlCalls = <<>> /\ storageQueue = <<>>
  /\ storage = [whitelist |-> <<>>, stats |-> StoredStats, settings |-> Null]
  /\ dynamicRules = <<>>
  /\ ExtraIdle

SettingsVarsKept ==
  UNCHANGED <<levVars, bloomVars, wlVars, now, urlData, phishingData, urlAnalysisCache,
              pageAnalysisCache, contentFilterCache, subdomainDepthLastIndex,
              securityWhitelist, securityStats, resultsCreated, analyzerCall, secCall,
              firstCall, extraVars>>

\* stored[SETTINGS]?.key || fallback
StoredOr(settings, key, fallback) ==
  IF settings # Null /\ key \in DOMAIN settings THEN settings[key] ELSE fallback

\* initContentFilter, contentFilter.js lines 22-28
StoredContentSettings(settings) ==
  IF "adult" \in DOMAIN StoredOr(settings, "contentCategories", DEFAULT_CONTENT_SETTINGS)
  THEN StoredOr(settings, "contentCategories", DEFAULT_CONTENT_SETTINGS)
  ELSE MapPut(StoredOr(settings, "contentCategories", DEFAULT_CONTENT_SETTINGS), "adult",
              [enabled |-> TRUE, strictness |-> "high"])

\* the service worker starts: initContentFilter (contentFilter.js lines 17-44)
\* and initPrivacyShield (part_002 lines 24-55) read the stored settings
SetInitModules ==
  /\ calls < MaxSettingsCalls
  /\ calls' = calls + 1
  /\ securityInitialized' = TRUE
  /\ contentData' = [adultKeywords |-> AdultKeywordsData,
                     contentFilterSettings |-> StoredContentSettings(storage.settings)]
  /\ privacyData' =
       [PrivacyLoaded EXCEPT
          !.privacySettings = StoredOr(storage.settings, "privacy", DEFAULT_PRIVACY_SETTINGS)]
  /\ pfIn' = [fn |-> "initializeSecurity"]
  /\ pfOut' = NoOutput
  /\ UNCHANGED <<storage, dynamicRules>>
  /\ SettingsVarsKept

\* updateContentFilterSettings(settings), contentFilter.js lines 50-52
ContentSettingsUpdated(current, settings) ==
  IF "contentCategories" \in DOMAIN settings
  THEN Spread(current, settings.contentCategories)
  ELSE current

\* updatePrivacySettings(settings.privacy), part_002 lines 340-342, and line
\* 252 of updateBlockingRules when the update has tracker categories
PrivacySettingsUpdated(current, settings) ==
  IF "privacy" \notin DOMAIN settings THEN current
  ELSE IF "trackerCategories" \notin DOMAIN settings.privacy
  THEN Spread(current, settings.privacy)
  ELSE [Spread(current, settings.privacy) EXCEPT
          !.trackerCategories = Spread(@, settings.privacy.trackerCategories)]

\* updateSecuritySettings(settings), part_003 lines 390-426, on initialised
\* modules: the setters of the modules, the tracker rules, then the stored
\* settings overwritten with the merge of line 393
SetUpdateSecuritySettings ==
  /\ securityInitialized /\ calls < MaxSettingsCalls
  /\ calls' = calls + 1
  /\ \E settings \in SettingsInputs :
       /\ pfIn' = [fn |-> "updateSecuritySettings", settings |-> settings]
       /\ contentData' =
            [contentData EXCEPT
               !.contentFilterSettings = ContentSettingsUpdated(@, settings)]
       /\ privacyData' =
            [privacyData EXCEPT !.privacySettings = PrivacySettingsUpdated(@, settings)]
       /\ dynamicRules' =
            IF "privacy" \in DOMAIN settings /\ "trackerCategories" \in DOMAIN settings.privacy
            THEN getTrackerBlockingRules(privacyData.trackerDomains,
                                         PrivacySettingsUpdated(privacyData.privacySettings,
                                                                settings))
            ELSE dynamicRules
       /\ storage' =
            [storage EXCEPT
               !.settings = Spread(IF @ = Null THEN EmptyMap ELSE @, settings)]
  /\ pfOut' = [fn |-> "updateSecuritySettings", value |-> TRUE]
  /\ UNCHANGED securityInitialized
  /\ SettingsVarsKept

SettingsNext == SetInitModules \/ SetUpdateSecuritySettings

SpecSettings == SettingsInit /\ [][SettingsNext]_vars

(***************************************************************************)
(* The content filter with its category cache: checkUrl (contentFilter.js  *)
(* lines 397-433) with getCategoryForUrl (lines 190-242), and              *)
(* updateContentFilterSettings (lines 50-52) between the checks.           *)
(***************************************************************************)
MaxCategoryCalls == 4
CategoryMaxTime == 120000
CategoryTickSteps == {30000, 60000}
CategoryUrls ==
  {"https://site.xxx/", "https://play.bet/", "https://casino.example/",
   "http://x.tk/adult", "https://example.org/"}

\* the category objects the settings are updated with
CategoryUpdates ==
  {[adult |-> [enabled |-> FALSE, strictness |-> "high"]],
   [adult |-> [enabled |-> TRUE, strictness |-> "high"]],
   [gambling |-> [enabled |-> FALSE, strictness |-> "medium"]],
   [gambling |-> [enabled |-> TRUE, strictness |-> "medium"]]}

\* the settings these updates lead to from the defaults
CategorySettingsStates ==
  {Spread(Spread(DEFAULT_CONTENT_SETTINGS, a), g) : a \in CategoryUpdates, g \in CategoryUpdates}

\* lines 73-94: the category whose blocked TLD ends the domain, adult first
BlocklistCategories(content, domain) ==
  IF /\ content.contentFilterSettings.adult.enabled
     /\ \E i \in 1..Len(content.adultKeywords.categories.adult.blockTlds) :
          EndsWith(ToLowerCase(domain), content.adultKeywords.categories.adult.blockTlds[i])
  THEN <<"adult">>
  ELSE <<"gambling">>

\* lines 119-179: the categories with a keyword in the URL, in the order of
\* the code and without duplicates
RECURSIVE KeywordCategories(_, _, _, _)
KeywordCategories(content, urlLower, categories, i) ==
  IF i > Len(categories) THEN <<>>
  ELSE (IF UrlKeywordHits(content, categories[i], urlLower) > 0
        THEN <<categories[i]>> ELSE <<>>)
       \o KeywordCategories(content, urlLower, categories, i + 1)

\* getCategoryForUrl, lines 205-238: the categories of the result
CategoriesForUrl(content, url) ==
  IF ~ParseUrl(url).ok THEN <<>>
  ELSE IF checkDomainBlocklist(content, ParseUrl(url).hostname)
  THEN BlocklistCategories(content, ParseUrl(url).hostname)
  ELSE IF content.adultKeywords = Null \/ content.contentFilterSettings = Null THEN <<>>
  ELSE KeywordCategories(content, ToLowerCase(url),
                         <<"adult", "gambling", "violence", "drugs", "piracy">>, 1)

CategorizedTable ==
  [s \in CategorySettingsStates, u \in CategoryUrls |->
     [shouldBlock |->
        ComputeCategoryForUrl([adultKeywords |-> AdultKeywordsData,
                               contentFilterSettings |-> s], u).shouldBlock,
      score |->
        ComputeCategoryForUrl([adultKeywords |-> AdultKeywordsData,
                               contentFilterSettings |-> s], u).score,
      categories |->
        CategoriesForUrl([adultKeywords |-> AdultKeywordsData,
                          contentFilterSettings |-> s], u)]]

CategoryInit ==
  /\ LevIdle /\ BloomIdle /\ PureIdle /\ SecInit


CategoryVarsKept ==
  UNCHANGED <<levVars, bloomVars, wlVars, securityInitialized, urlData, phishingData,
              privacyData, urlAnalysisCache, pageAnalysisCache, subdomainDepthLastIndex,
              securityWhitelist, securityStats, storage, resultsCreated, analyzerCall,
              secCall, firstCall, dynamicRules, extraVars>>

\* initContentFilter, lines 17-44, with nothing stored
CatInitContentFilter ==
  /\ contentData = ContentUnloaded
  /\ contentData' = ContentLoaded
  /\ pfIn' = [fn |-> "initContentFilter"]
  /\ UNCHANGED <<pfOut, now, calls, contentFilterCache>>
  /\ CategoryVarsKept

CatTick ==
  /\ \E d \in CategoryTickSteps : now + d <= CategoryMaxTime /\ now' = now + d
  /\ UNCHANGED <<pfIn, pfOut, calls, contentData, contentFilterCache>>
  /\ CategoryVarsKept

\* updateContentFilterSettings(settings), lines 50-52
CatUpdateContentFilterSettings ==
  /\ contentData # ContentUnloaded /\ calls < MaxCategoryCalls
  /\ calls' = calls + 1
  /\ \E settings \in CategoryUpdates :
       /\ contentData' =
            [contentData EXCEPT !.contentFilterSettings = Spread(@, settings)]
       /\ pfIn' = [fn |-> "updateContentFilterSettings", settings |-> settings]
  /\ pfOut' = NoOutput
  /\ UNCHANGED <<now, contentFilterCache>>
  /\ CategoryVarsKept

\* what getCategoryForUrl returns: the cached result inside its minute
CategorizedReturn(url) ==
  IF CategoryCacheHit(url) THEN contentFilterCache[url].result
  ELSE CategorizedTable[contentData.contentFilterSettings, url]

\* lines 411-416: checkUrl takes the categories and the score of a result
\* that says shouldBlock
CheckUrlResult(category) ==
  IF category.shouldBlock
  THEN [isBlocked |-> TRUE, categories |-> category.categories, score |-> category.score]
  ELSE [isBlocked |-> FALSE, categories |-> <<>>, score |-> 0]

\* checkUrl(url), lines 397-433; enforceSafeSearch changes no state
CatCheckUrl ==
  /\ contentData # ContentUnloaded /\ calls < MaxCategoryCalls
  /\ calls' = calls + 1
  /\ \E url \in CategoryUrls :
       /\ pfIn' = [fn |-> "checkUrl", url |-> url]
       /\ pfOut' = [fn |-> "checkUrl", value |-> CheckUrlResult(CategorizedReturn(url)),
                    cached |-> CategoryCacheHit(url)]
       /\ contentFilterCache' =
            IF CategoryCacheHit(url) THEN contentFilterCache
            ELSE MapPut(contentFilterCache, url,
                        [result |-> CategorizedReturn(url), timestamp |-> now])
  /\ UNCHANGED <<now, contentData>>
  /\ CategoryVarsKept

CategoryNext ==
  \/ CatInitContentFilter
  \/ CatTick
  \/ CatUpdateContentFilterSettings
  \/ CatCheckUrl

SpecCategory == CategoryInit /\ [][CategoryNext]_vars

(***************************************************************************)
(* The whitelist calls with their arguments: addToWhitelist and            *)
(* removeFromWhitelist (part_003 lines 97-140) applied to the strings a    *)
(* user may give for a domain.                                             *)
(***************************************************************************)
RoundTripInputs ==
  {"paypal.com", "PayPal.com", "https://paypal.com", "www.paypal.com", "paypal.com/login",
   "https://www.Paypal.com/x", "*.ok.org", "example.org", "HTTP://EXAMPLE.ORG/",
   "shop.example.org"}
RoundTripWhitelists ==
  {<<>>, <<"*.ok.org">>, <<"bad.org">>, <<"paypal.com">>, <<"example.org", "bad.org">>}

RoundTripNormalized == [d \in RoundTripInputs |-> NormalizeWhitelistDomain(d)]
RoundTripLowered == [d \in RoundTripInputs |-> ToLowerCase(d)]
RoundTripEntries ==
  {RoundTripNormalized[d] : d \in RoundTripInputs}
  \cup UNION {{w[i] : i \in 1..Len(w)} : w \in RoundTripWhitelists}
RoundTripMatches ==
  [w \in RoundTripEntries, d \in RoundTripInputs |-> EntryMatches(w, RoundTripNormalized[d])]

\* isWhitelisted(domain), part_003 lines 76-89, for the domain of an input
DomainWhitelisted(whitelist, d) ==
  /\ RoundTripNormalized[d] # ""
  /\ \E i \in 1..Len(whitelist) : RoundTripMatches[whitelist[i], d]

RoundTripInit ==
  /\ LevIdle /\ BloomIdle /\ PureIdle /\ SecFresh
  /\ \E w \in RoundTripWhitelists : storage = [whitelist |-> w, stats |-> StoredStats]
  /\ wlCalls = <<>> /\ storageQueue = <<>>
  /\ dynamicRules = <<>>
  /\ ExtraIdle

RoundTripVarsKept ==
  UNCHANGED <<levVars, bloomVars, wlVars, now, securityInitialized, urlData, phishingData,
              contentData, privacyData, urlAnalysisCache, pageAnalysisCache,
              contentFilterCache, subdomainDepthLastIndex, securityStats, resultsCreated,
              calls, analyzerCall, secCall, firstCall, dynamicRules, extraVars>>

\* initializeSecurity, part_003 lines 33-36: the stored whitelist is read
RtInitializeSecurity ==
  /\ ~securityInitialized
  /\ securityInitialized' = TRUE
  /\ securityWhitelist' = storage.whitelist
  /\ UNCHANGED <<pfIn, pfOut, storage, levVars, bloomVars, wlVars, now, urlData,
                 phishingData, contentData, privacyData, urlAnalysisCache,
                 pageAnalysisCache, contentFilterCache, subdomainDepthLastIndex,
                 securityStats, resultsCreated, calls, analyzerCall, secCall, firstCall,
                 dynamicRules, extraVars>>

\* addToWhitelist(domain), part_003 lines 97-114, with its storage write
RtAddToWhitelist ==
  /\ securityInitialized /\ pfIn = NoInput
  /\ \E d \in RoundTripInputs :
       /\ pfIn' = [fn |-> "addToWhitelist", domain |-> d, before |-> securityWhitelist]
       /\ securityWhitelist' =
            IF IndexOfEntry(securityWhitelist, RoundTripNormalized[d]) = 0
            THEN Append(securityWhitelist, RoundTripNormalized[d])
            ELSE securityWhitelist
  /\ storage' = [storage EXCEPT !.whitelist = securityWhitelist']
  /\ UNCHANGED pfOut
  /\ RoundTripVarsKept

\* removeFromWhitelist(domain), part_003 lines 122-140, with its storage
\* write
RtRemoveFromWhitelist ==
  /\ pfIn # NoInput /\ pfOut = NoOutput
  /\ \E d \in RoundTripInputs :
       /\ pfOut' = [fn |-> "removeFromWhitelist", domain |-> d, value |-> TRUE]
       /\ securityWhitelist' =
            IF IndexOfEntry(securityWhitelist, RoundTripLowered[d]) = 0
            THEN securityWhitelist
            ELSE SpliceOne(securityWhitelist,
                           IndexOfEntry(securityWhitelist, RoundTripLowered[d]))
  /\ storage' = [storage EXCEPT !.whitelist = securityWhitelist']
  /\ UNCHANGED pfIn
  /\ RoundTripVarsKept

RoundTripNext == RtInitializeSecurity \/ RtAddToWhitelist \/ RtRemoveFromWhitelist

SpecRoundTrip == RoundTripInit /\ [][RoundTripNext]_vars

(***************************************************************************)
(* The focus session of part_005: handleStartSession (lines 499-524) and   *)
(* handleEmergencyUnlock (lines 603-657).  The message listener starts a   *)
(* handler for every request, so that several unlock requests are under    *)
(* way at a time, each suspended at one of its awaits.  A hash stands for   *)
(* the password and the salt it was derived from.                          *)
(***************************************************************************)
MaxUnlockCalls == 3
MaxAttemptsInputs == {1, 2}
SessionPassword == "focus"
MasterCode == "master"
UnlockPasswords == {SessionPassword, MasterCode, "guess"}

\* hashPassword(password, salt), part_005 lines 690-730
HashPassword(password, salt) == [password |-> password, salt |-> salt]

SessionInit ==
  /\ LevIdle /\ BloomIdle /\ PureIdle /\ SecInit
  /\ unsavedCalls = [url |-> 0, page |-> 0]
  /\ sessionStore \in
       {NoSession,
        [NoSession EXCEPT !.optionsEmergencyCode = HashPassword(MasterCode, "options")]}
  /\ unlockCalls = <<>>
  /\ unlockLog = [compared |-> 0, rejected |-> 0]

SessionVarsKept ==
  UNCHANGED <<levVars, bloomVars, secVars, pureVars, wlVars, dynamicRules, unsavedCalls>>

\* handleStartSession(payload), lines 499-524: the session keys are stored
\* with the counter at 0
SsStartSession ==
  /\ sessionStore.passwordHash = Null /\ unlockCalls = <<>>
  /\ \E maxAttempts \in MaxAttemptsInputs :
       sessionStore' =
         [sessionStore EXCEPT !.passwordHash = HashPassword(SessionPassword, "session"),
                              !.failedUnlockAttempts = 0,
                              !.maxAttempts = maxAttempts]
  /\ UNCHANGED <<unlockCalls, unlockLog>>
  /\ SessionVarsKept

\* an EMERGENCY_UNLOCK message arrives, lines 429-431: the handler runs up to
\* its first await
SsUnlockRequest ==
  /\ sessionStore.passwordHash # Null
  /\ Len(unlockCalls) < MaxUnlockCalls
  /\ \E password \in UnlockPasswords :
       unlockCalls' = Append(unlockCalls, [pc |-> "get", password |-> password])
  /\ UNCHANGED <<sessionStore, unlockLog>>
  /\ SessionVarsKept

\* the master code of lines 612-619 and 641-648
IsMasterCode(password) ==
  /\ sessionStore.optionsEmergencyCode # Null
  /\ HashPassword(password, "options") = sessionStore.optionsEmergencyCode

\* lines 605-627: the session keys arrive; without a session the master code
\* decides, at maxAttempts the request is refused
UnlockAfterGet(call) ==
  IF sessionStore.passwordHash = Null
  THEN [call EXCEPT !.pc = IF IsMasterCode(call.password) THEN "end" ELSE "done"]
  ELSE IF sessionStore.failedUnlockAttempts >= sessionStore.maxAttempts
  THEN [pc |-> "done", password |-> call.password, refused |-> TRUE]
  ELSE [pc |-> "hash", password |-> call.password,
        passwordHash |-> sessionStore.passwordHash,
        failedUnlockAttempts |-> sessionStore.failedUnlockAttempts]

SsUnlockRead ==
  /\ \E i \in 1..Len(unlockCalls) :
       /\ unlockCalls[i].pc = "get"
       /\ unlockCalls' = [unlockCalls EXCEPT ![i] = UnlockAfterGet(@)]
  /\ UNCHANGED <<sessionStore, unlockLog>>
  /\ SessionVarsKept

\* lines 630-650: the salt and the hash arrive and the password is compared
\* with the session password, then with the master code
UnlockMatches(call) ==
  \/ HashPassword(call.password, "session") = call.passwordHash
  \/ IsMasterCode(call.password)

SsUnlockCompare ==
  /\ \E i \in 1..Len(unlockCalls) :
       /\ unlockCalls[i].pc = "hash"
       /\ unlockCalls' =
            [unlockCalls EXCEPT ![i].pc = IF UnlockMatches(unlockCalls[i]) THEN "end"
                                          ELSE "set"]
       /\ unlockLog' =
            [unlockLog EXCEPT !.compared = IF UnlockMatches(unlockCalls[i]) THEN @
                                           ELSE @ + 1]
  /\ UNCHANGED sessionStore
  /\ SessionVarsKept

\* lines 650-653: the counter read at line 605 plus one is stored
SsUnlockStore ==
  /\ \E i \in 1..Len(unlockCalls) :
       /\ unlockCalls[i].pc = "set"
       /\ sessionStore' =
            [sessionStore EXCEPT
               !.failedUnlockAttempts = unlockCalls[i].failedUnlockAttempts + 1]
       /\ unlockCalls' = [unlockCalls EXCEPT ![i].pc = "done"]
  /\ unlockLog' = [unlockLog EXCEPT !.rejected = @ + 1]
  /\ SessionVarsKept

\* handleEndSession, lines 527-561: the session keys are removed
SsUnlockEnd ==
  /\ \E i \in 1..Len(unlockCalls) :
       /\ unlockCalls[i].pc = "end"
       /\ unlockCalls' = [unlockCalls EXCEPT ![i].pc = "done"]
  /\ sessionStore' = [sessionStore EXCEPT !.passwordHash = Null,
                                          !.failedUnlockAttempts = 0]
  /\ UNCHANGED unlockLog
  /\ SessionVarsKept

SessionNext ==
  \/ SsStartSession
  \/ SsUnlockRequest
  \/ SsUnlockRead
  \/ SsUnlockCompare
  \/ SsUnlockStore
  \/ SsUnlockEnd

SpecSession == SessionInit /\ [][SessionNext]_vars

\* the security modules, the harnesses at rest
Init == SecInit /\ LevIdle /\ BloomIdle /\ PureIdle
Spec == Init /\ [][Next]_vars

\* C7: levenshteinDistance is a metric: symmetric, zero on identical strings,
\* and it satisfies the triangle inequality d(a,c) <= d(a,b) + d(b,c).
C7_LevMetric ==
  lvPc = "done" =>
    /\ lvAB = lvBA
    /\ lvAA = 0
    /\ lvAC <= lvAB + lvBC

\* Witness: three pairwise different non-empty strings were measured and the
\* triangle inequality is tight with a non-zero distance on each leg.
C7_Witness ==
  /\ lvPc = "done"
  /\ lvA # lvB /\ lvB # lvC /\ lvA # lvC
  /\ lvAB > 0 /\ lvBC > 0 /\ lvAC = lvAB + lvBC
  /\ Len(lvA) > 0 /\ Len(lvB) > 0 /\ Len(lvC) > 0

C6_SerializeRoundTrip ==
  bfCopy # NoFilter =>
    /\ bfCopy.size = bfSource.size
    /\ bfCopy.hashCount = bfSource.hashCount
    /\ bfCopy.itemCount = bfSource.itemCount
    /\ bfCopy.bitArray = bfSource.bitArray
    /\ \A x \in BloomItems : BloomContains(bfCopy, x) = BloomContains(bfSource, x)

\* Witness: a filter holding items was serialized and restored, and the copy
\* tells an added item from an absent one.
C6_Witness ==
  /\ bfCopy # NoFilter
  /\ bfCopy.itemCount >= 2
  /\ bfCopy.hashCount >= 1
  /\ \E x \in BloomItems, y \in BloomItems :
       BloomContains(bfCopy, x) /\ ~BloomContains(bfCopy, y)

(***************************************************************************)
(* The assessments the four analysis functions return.                     *)
(***************************************************************************)
\* the assessments the last call returned: the analyzer's and, when the call
\* was to a coordinator, the coordinator's
Returned ==
  (IF analyzerCall.op = "none" THEN {} ELSE {analyzerCall.value})
  \cup (IF secCall.op \in {"none", "rejected"} THEN {} ELSE {secCall.value})

\* the level and the recommendation the specification assigns to a score
LevelByScore(score) ==
  IF score >= 90 THEN "CRITICAL"
  ELSE IF score >= 70 THEN "HIGH"
  ELSE IF score >= 40 THEN "MEDIUM"
  ELSE IF score >= 1 THEN "LOW"
  ELSE "NONE"

RecommendationByScore(score) ==
  IF score >= 70 THEN "BLOCK" ELSE IF score >= 40 THEN "WARN" ELSE "ALLOW"

\* C1: every assessment returned by analyzeUrl, analyzePage, analyzeUrlSecurity
\* and analyzePageSecurity has a threatScore between 0 and 100.
C1_ScoreInRange ==
  \A r \in Returned : r.threatScore >= 0 /\ r.threatScore <= 100

\* Witness: analyzePageSecurity returned the score 100 for a page that
\* analyzePage had just analysed and found five or more indicators on.
C1_Witness ==
  /\ secCall.op = "page" /\ secCall.value.threatScore = 100
  /\ analyzerCall.op = "analyzePage" /\ analyzerCall.value.threatScore = 100
  /\ analyzerCall.computed
  /\ Len(analyzerCall.value.flags) >= 5

IsSubdomainOf(host, domain) == EndsWith(host, "." \o domain)

CoveredByEntry(entry, host) ==
  \/ host = entry
  \/ IsSubdomainOf(host, entry)
  \/ /\ StartsWith(entry, "*.")
     /\ \/ host = SliceFrom(entry, 3)
        \/ IsSubdomainOf(host, SliceFrom(entry, 3))

CoveredTable ==
  [entry \in {NormalizedInputs[x] : x \in WhitelistInputs}, host \in Hosts |->
     CoveredByEntry(entry, host)]

OnWhitelist(whitelist, host) ==
  host # "" /\ \E i \in 1..Len(whitelist) : CoveredTable[whitelist[i], host]

\* C4: when the hostname of the URL or page matches the whitelist,
\* analyzeUrlSecurity and analyzePageSecurity return threatScore 0, threatLevel
\* NONE, recommendation ALLOW, isWhitelisted true and no flags, and leave the
\* statistics as they were.
C4_WhitelistShortCircuit ==
  [][(/\ calls' = calls + 1
      /\ secCall'.op # "none"
      /\ OnWhitelist(securityWhitelist, secCall'.domain))
     => (/\ secCall'.value.threatScore = 0
         /\ secCall'.value.threatLevel = "NONE"
         /\ secCall'.value.recommendation = "ALLOW"
         /\ secCall'.value.isWhitelisted
         /\ secCall'.value.flags = <<>>
         /\ securityStats' = securityStats)]_vars

\* Witness: analyzePageSecurity returned the whitelisted result for a page
\* whose content the loaded content filter blocks, on a subdomain that a
\* wildcard entry covers.
C4_Witness ==
  /\ secCall.op = "page" /\ secCall.value.isWhitelisted
  /\ secCall.domain = "a.ok.org"
  /\ contentData = ContentLoaded
  /\ \E page \in Pages :
       /\ page.url = secCall.value.url
       /\ PageContentTable[contentData, page] >= CONTENT_BLOCK_SCORE

\* C8: a call of analyzeUrl(u) less than five minutes after the first call for
\* u, with no clearUrlAnalysisCache in between, returns the result object of
\* the first call and runs no detector: no object is built, the cache and the
\* state of the patterns stay as they were.
C8_SecondCallServedFromCache ==
  [][(/\ calls' = calls + 1
      /\ analyzerCall'.op = "analyzeUrl"
      /\ analyzerCall'.key \in DOMAIN firstCall
      /\ now - firstCall[analyzerCall'.key].time < 300000)
     => (/\ analyzerCall'.value = firstCall[analyzerCall'.key].value
         /\ resultsCreated' = resultsCreated
         /\ subdomainDepthLastIndex' = subdomainDepthLastIndex
         /\ urlAnalysisCache' = urlAnalysisCache)]_vars

\* Witness: a later call returned the object of an earlier time although the
\* reference data loaded since would give the URL another score.
C8_Witness ==
  /\ analyzerCall.op = "analyzeUrl"
  /\ analyzerCall.value.timestamp < analyzerCall.time
  /\ analyzerCall.value.threatScore
       # UrlResultTable[urlData, analyzerCall.key, subdomainDepthLastIndex].threatScore

\* what a call of an analyzer does with the entry of its key: an object built
\* before the call is returned only from an entry younger than the window; an
\* entry of the window's age or older gives way to a new object, stored anew
CacheRule(op, cache, cacheAfter, window) ==
  (calls' = calls + 1 /\ analyzerCall'.op = op) =>
    /\ (analyzerCall'.value.id <= resultsCreated) =>
         (/\ analyzerCall'.key \in DOMAIN cache
          /\ now - cache[analyzerCall'.key].timestamp < window)
    /\ (/\ analyzerCall'.key \in DOMAIN cache
        /\ now - cache[analyzerCall'.key].timestamp >= window) =>
         (/\ analyzerCall'.value.id = resultsCreated + 1
          /\ analyzerCall'.value.timestamp = now
          /\ analyzerCall'.key \in DOMAIN cacheAfter
          /\ cacheAfter[analyzerCall'.key]
               = [result |-> analyzerCall'.value, timestamp |-> now])

\* C9: analyzeUrl serves an object built earlier only from an entry younger
\* than 5 minutes and analyzePage only from one younger than 10 minutes; with
\* an entry of that age or older the analysis is done again and stored again.
C9_NoExpiredEntryServed ==
  [][/\ CacheRule("analyzeUrl", urlAnalysisCache, urlAnalysisCache', 300000)
     /\ CacheRule("analyzePage", pageAnalysisCache, pageAnalysisCache', 600000)]_vars

\* Witness: analyzeUrl met an entry exactly five minutes old and analysed the
\* URL again.
C9_Witness ==
  /\ analyzerCall.op = "analyzeUrl"
  /\ analyzerCall.entryAge = 300000
  /\ analyzerCall.computed
  /\ analyzerCall.value.timestamp = analyzerCall.time

\* C10: for a URL that cannot be parsed analyzeUrl returns an assessment with
\* threatScore 0, threatLevel NONE, recommendation ALLOW and a flag of type
\* analysis_error with score 0.
C10_UnparsableUrl ==
  (analyzerCall.op = "analyzeUrl" /\ ~ParsedUrl[analyzerCall.key].ok)
    => /\ analyzerCall.value.threatScore = 0
       /\ analyzerCall.value.threatLevel = "NONE"
       /\ analyzerCall.value.recommendation = "ALLOW"
       /\ \E i \in 1..Len(analyzerCall.value.flags) :
            /\ analyzerCall.value.flags[i].type = "analysis_error"
            /\ analyzerCall.value.flags[i].score = 0

\* Witness: analyzeUrl analysed a domain name without a scheme with the
\* reference data loaded.
C10_Witness ==
  /\ analyzerCall.op = "analyzeUrl" /\ analyzerCall.key = "paypal.com"
  /\ ~ParsedUrl[analyzerCall.key].ok
  /\ analyzerCall.computed
  /\ urlData = UrlDataLoaded

\* C11: analyzeUrlSecurity and analyzePageSecurity never throw or reject,
\* whatever the argument; a call that fails (an unparsable URL, missing page
\* data) returns an assessment with threatScore 0 and recommendation ALLOW.
C11_CoordinatorsNeverReject ==
  /\ secCall.op # "rejected"
  /\ (secCall.op = "url" /\ ~ParsedUrl[secCall.value.url].ok)
       => /\ secCall.value.threatScore = 0
          /\ secCall.value.recommendation = "ALLOW"

\* some flag of the assessment has one of the types
HasFlag(value, types) == \E i \in 1..Len(value.flags) : value.flags[i].type \in types

\* C12: with the brand database loaded, analyzeUrl of a URL whose hostname is a
\* one-character lookalike of a brand keyword followed by extra words, on a
\* free TLD, with sensitive keywords and a path, reports a homograph or
\* typosquatting flag, a free_tld flag and a sensitive_keywords flag, with
\* threatScore >= 70 and recommendation BLOCK.
C12_LookalikeUrlBlocked ==
  (/\ pfOut.fn = "analyzeUrl"
   /\ pfIn.url = "http://paypaI-secure-login.tk/account"
   /\ pfIn.data = UrlDataLoaded)
    => /\ HasFlag(pfOut.value, {"homograph", "typosquatting"})
       /\ HasFlag(pfOut.value, {"free_tld"})
       /\ HasFlag(pfOut.value, {"sensitive_keywords"})
       /\ pfOut.value.threatScore >= 70
       /\ pfOut.value.recommendation = "BLOCK"

\* the form has a password input and its action is an http: URL whose host is
\* an IPv4 literal
PostsPasswordToIp(form) ==
  /\ \E k \in 1..Len(form.inputs) : form.inputs[k].type = "password"
  /\ ParseUrl(form.action).ok
  /\ ParseUrl(form.action).protocol = "http:"
  /\ Len(Split(ParseUrl(form.action).hostname, ".")) = 4
  /\ \A k \in 1..4 : AllDigits(Split(ParseUrl(form.action).hostname, ".")[k])

IpFormPages == {p \in PurePages : \E i \in 1..Len(p.forms) : PostsPasswordToIp(p.forms[i])}

\* C13: for every page with a form that has a password input and whose action
\* is an http: URL with an IPv4-literal host, analyzePage reports both an
\* ip_submit and an insecure_submit flag and a threatScore of at least 50.
C13_IpFormFlagged ==
  (pfOut.fn = "analyzePage" /\ pfIn.page \in IpFormPages)
    => /\ HasFlag(pfOut.value, {"ip_submit"})
       /\ HasFlag(pfOut.value, {"insecure_submit"})
       /\ pfOut.value.threatScore >= 50


\* the number of occurrences of the category's keywords in title and text;
\* without keyword data there are no keywords
OccurrenceTable ==
  [c \in PureContentStates, p \in ContentPages |->
     [category \in ContentCategories |->
        IF c.adultKeywords = Null \/ c.contentFilterSettings = Null THEN 0
        ELSE CategoryMatchCount(
               c, category, ToLowerCase(p.title) \o " " \o ToLowerCase(p.textContent), 1)]]

CategoryEnabled(content, category) ==
  /\ content.contentFilterSettings # Null
  /\ content.contentFilterSettings[category].enabled

InSeq(x, seq) == \E i \in 1..Len(seq) : seq[i] = x

\* what a category contributes when it is matched
Contribution(matched, occurrences, category) ==
  IF InSeq(category, matched) THEN Min2(occurrences[category] * 10, 50) ELSE 0

ContentRule(content, occurrences, value) ==
  /\ \A category \in ContentCategories :
       InSeq(category, value.matchedCategories)
         <=> (CategoryEnabled(content, category) /\ occurrences[category] >= 3)
  /\ value.score =
       Min2(Contribution(value.matchedCategories, occurrences, "adult")
            + Contribution(value.matchedCategories, occurrences, "gambling")
            + Contribution(value.matchedCategories, occurrences, "violence")
            + Contribution(value.matchedCategories, occurrences, "drugs")
            + Contribution(value.matchedCategories, occurrences, "piracy"), 100)
  /\ value.shouldBlock <=> value.score >= 50
  /\ (Len(value.matchedCategories) = 1
      /\ occurrences[value.matchedCategories[1]] \in {3, 4}) => ~value.shouldBlock

\* C14: analyzePageContent puts a category in matchedCategories exactly when
\* it is enabled and title plus text hold at least 3 occurrences of its
\* keywords; each matched category contributes min(occurrences * 10, 50), the
\* total is capped at 100 and shouldBlock holds exactly when the total is at
\* least 50, so one category with 3 or 4 occurrences is matched, not blocked.
C14_ContentScore ==
  pfOut.fn = "analyzePageContent"
    => ContentRule(pfIn.content, OccurrenceTable[pfIn.content, pfIn.page], pfOut.value)

\* a page with three occurrences of one enabled category was analysed: the
\* category is matched with score 30 and the page is not blocked
C14_Witness ==
  /\ pfOut.fn = "analyzePageContent"
  /\ pfIn.content = ContentAllEnabled
  /\ OccurrenceTable[pfIn.content, pfIn.page].gambling = 3
  /\ pfOut.value = [matchedCategories |-> <<"gambling">>, score |-> 30, shouldBlock |-> FALSE]

\* every call made has returned, the startup load among them
WlAllCompleted ==
  /\ \E c \in 1..Len(wlCalls) : wlCalls[c].op = "init"
  /\ \A c \in 1..Len(wlCalls) : wlCalls[c].pc = "done"

NoDuplicates(list) ==
  \A i \in 1..Len(list) : \A j \in 1..Len(list) : list[i] = list[j] => i = j

\* C15: after any sequence of addToWhitelist, removeFromWhitelist and
\* initializeSecurity calls, interleaved in any order at their await points,
\* once all the calls have completed the whitelist in storage equals the
\* whitelist in memory and no entry appears twice.
C15_WhitelistPersisted ==
  WlAllCompleted
    => /\ storage.whitelist = securityWhitelist
       /\ NoDuplicates(securityWhitelist)

\* the position of the detector that pushes a flag of the type: homograph,
\* typosquatting, suspicious patterns, TLD, shortener, malicious domain
DetectorRank(type) ==
  CASE type = "homograph" -> 1
    [] type = "typosquatting" -> 2
    [] type \in {"ip_address", "multiple_hyphens", "executable", "sensitive_keywords",
                 "subdomain_depth", "at_symbol", "free_tld", "encoded_chars", "data_uri",
                 "javascript_uri", "long_domain", "excessive_subdomains", "high_entropy",
                 "brand_keyword_misuse"} -> 3
    [] type = "risky_tld" -> 4
    [] type = "url_shortener" -> 5
    [] type = "malicious_domain" -> 6
    [] OTHER -> 0

RECURSIVE FlagScoreSum(_, _, _)
FlagScoreSum(flags, i, sum) ==
  IF i > Len(flags) THEN sum ELSE FlagScoreSum(flags, i + 1, sum + flags[i].score)

InDetectorOrder(flags) ==
  /\ \A i \in 1..Len(flags) : DetectorRank(flags[i].type) > 0
  /\ \A i \in 1..(Len(flags) - 1) :
       /\ DetectorRank(flags[i].type) <= DetectorRank(flags[i + 1].type)
       /\ DetectorRank(flags[i].type) = DetectorRank(flags[i + 1].type)
            => DetectorRank(flags[i].type) = 3

UrlAggregationRule(value) ==
  /\ value.threatScore = Min2(100, FlagScoreSum(value.flags, 1, 0))
  /\ InDetectorOrder(value.flags)
  /\ value.flags = <<>>
       => /\ value.threatScore = 0
          /\ value.threatLevel = "NONE"
          /\ value.recommendation = "ALLOW"

\* C16: for every analyzeUrl call on a URL that parses, threatScore is
\* min(100, sum of the score fields of the returned flags), the flags are in
\* detector order (homograph, typosquatting, suspicious patterns, TLD,
\* shortener, malicious domain), and when no detector fires the result is
\* score 0, level NONE, recommendation ALLOW with an empty flag list.
C16_ScoreIsCappedFlagSum ==
  (pfOut.fn = "analyzeUrl" /\ PureParsed[pfIn.url].ok) => UrlAggregationRule(pfOut.value)

\* a URL whose flags sum to more than 100 was analysed, and they come from
\* three detectors
C16_Witness ==
  /\ pfOut.fn = "analyzeUrl" /\ PureParsed[pfIn.url].ok
  /\ FlagScoreSum(pfOut.value.flags, 1, 0) > 100
  /\ pfOut.value.threatScore = 100
  /\ Cardinality({DetectorRank(pfOut.value.flags[i].type) :
                    i \in 1..Len(pfOut.value.flags)}) = 3

\* a URL on which no detector fires was analysed
C16_WitnessClean ==
  /\ pfOut.fn = "analyzeUrl" /\ PureParsed[pfIn.url].ok
  /\ pfOut.value.flags = <<>>

\* the dimensions of a page: the capped sum of its indicator scores, the
\* score analyzeUrl gives its URL, the score of its content
PageDimensions ==
  [d \in SecDataStates, p \in PureSecPages |->
     [withinPage |-> Min2(100, PageIndicatorSum(d.phishing, p, PageDomain(p))),
      indicatorSum |-> PageIndicatorSum(d.phishing, p, PageDomain(p)),
      urlLevel |-> ComputeUrlResult(d.url, p.url, 0, 0, 0).threatScore,
      content |-> PageContentResult(d.content, p)]]

ListingTypes(data, domain) ==
  {type \in {"phishing", "malware", "scam"} :
     \E i \in 1..Len(data[type]) : data[type][i] = ToLowerCase(domain)}

\* the patterns of the data that compile and match the lower-cased domain
MatchingPatterns(data, domain) ==
  {i \in 1..Len(data.patterns) :
     /\ RegexValid(data.patterns[i].pattern)
     /\ RegexTest(data.patterns[i].pattern, ToLowerCase(domain))}

FirstListing(types) ==
  IF "phishing" \in types THEN "phishing"
  ELSE IF "malware" \in types THEN "malware" ELSE "scam"

LeastOf(indexes) == CHOOSE i \in indexes : \A j \in indexes : i <= j

\* what checkMaliciousDomain is to return for a domain
ExpectedMalicious(data, listings, matching) ==
  IF listings # {}
  THEN [isMalicious |-> TRUE, type |-> FirstListing(listings), score |-> 100]
  ELSE IF matching # {}
  THEN [isMalicious |-> TRUE, type |-> data.patterns[LeastOf(matching)].type,
        score |-> data.patterns[LeastOf(matching)].score]
  ELSE NotMalicious

ExpectedMaliciousTable ==
  [d \in MaliciousDataStates \ {Null}, h \in MaliciousDomainInputs \ {""} |->
     ExpectedMalicious(d, ListingTypes(d, h), MatchingPatterns(d, h))]

\* the URLs whose hostname is on one of the three lists of the reference data
ListedHostUrls ==
  {u \in PureUrls : /\ ParseUrl(u).ok
                    /\ ListingTypes(MaliciousDomainsData, ParseUrl(u).hostname) # {}}

\* C18: with the reference data loaded, checkMaliciousDomain reports a
\* hostname that is on the phishing, malware or scam list, in any letter case,
\* as malicious with score 100 and the first of phishing, malware, scam that
\* lists it; a listed hostname is never reported by a pattern, otherwise the
\* first matching pattern gives type and score, a pattern that does not
\* compile is skipped; analyzeUrl of a URL with a listed hostname yields
\* threatScore 100, CRITICAL, BLOCK.
C18_MaliciousDomain ==
  /\ (pfOut.fn = "checkMaliciousDomain" /\ pfIn.data # Null /\ pfIn.domain # "")
       => pfOut.value = ExpectedMaliciousTable[pfIn.data, pfIn.domain]
  /\ (pfOut.fn = "analyzeUrl" /\ pfIn.data = UrlDataLoaded /\ pfIn.url \in ListedHostUrls)
       => /\ pfOut.value.threatScore = 100
          /\ pfOut.value.threatLevel = "CRITICAL"
          /\ pfOut.value.recommendation = "BLOCK"

\* a domain that is on two lists and matches a pattern was checked, written
\* in capitals, with a pattern that does not compile in the data
C18_Witness ==
  /\ pfOut.fn = "checkMaliciousDomain"
  /\ pfIn.domain = "EVIL.tk"
  /\ pfIn.data = MaliciousWithInvalidPattern
  /\ pfOut.value = [isMalicious |-> TRUE, type |-> "phishing", score |-> 100]

\* the answer of isTrackerDomain names only categories that are on, and
\* there is no answer but "no tracker" while blockTrackers is off
TrackerAnswerRule(settings, answer) ==
  /\ \A i \in 1..Len(answer.categories) : CategoryOn(settings, answer.categories[i])
  /\ answer.isTracker
       => (SettingOn(settings, "blockTrackers") /\ answer.categories # <<>>)

RulesRule(settings, rules) ==
  /\ \A i \in 1..Len(rules) : CategoryOn(settings, rules[i].category)
  /\ rules # <<>> => SettingOn(settings, "blockTrackers")

\* C19: after any sequence of updatePrivacySettings and updateBlockingRules
\* calls, isTrackerDomain reports only categories that are enabled in the
\* current settings, so a domain listed only under disabled categories is no
\* tracker, and with blockTrackers off no domain is a tracker;
\* getTrackerBlockingRules emits rules only for enabled categories.
C19_OnlyEnabledCategories ==
  /\ pfOut.fn = "isTrackerDomain"
       => TrackerAnswerRule(privacyData.privacySettings, pfOut.value)
  /\ pfOut.fn = "getTrackerBlockingRules"
       => RulesRule(privacyData.privacySettings, pfOut.value)

\* a domain that two categories list was queried after both were turned off
\* with blockTrackers still on: it is no tracker
C19_Witness ==
  /\ pfOut.fn = "isTrackerDomain"
  /\ pfIn.domain = "stats.io"
  /\ Len(FactsOf(privacyData, pfIn.domain).listed) = 2
  /\ SettingOn(privacyData.privacySettings, "blockTrackers")
  /\ CategoryOn(privacyData.privacySettings, "fingerprinting")
  /\ ~pfOut.value.isTracker

\* the facts about a domain with the filter out of the way
WithoutFilter(facts) == [facts EXCEPT !.passes = TRUE]

\* C20: the Bloom-filter pre-check of isTrackerDomain never changes the
\* answer: for every domain and every settings state the result with the
\* filter (probing the domain and each parent domain) is the result of the
\* scan of the category lists alone.
C20_FilterKeepsAnswer ==
  pfOut.fn = "isTrackerDomain"
    => pfOut.value = TrackerCheck(privacyData.trackerDomains # Null,
                                  privacyData.privacySettings, pfIn.domain,
                                  WithoutFilter(FactsOf(privacyData, pfIn.domain)))

\* a subdomain of a listed domain was queried with the filter in place and
\* reported as a tracker
C20_Witness ==
  /\ pfOut.fn = "isTrackerDomain"
  /\ pfIn.domain = "A.B.Stats.IO"
  /\ privacyData.trackerBloomFilter # Null
  /\ pfOut.value.isTracker
  /\ pfOut.value.categories # <<>>


\* the (brand, keyword) pairs of a brand database, in the order of the data
BrandKeywordPairs(data) ==
  UNION {{<<b, k>> : k \in 1..Len(data.brands[b].keywords)} : b \in 1..Len(data.brands)}

KeywordOf(data, pair) == data.brands[pair[1]].keywords[pair[2]]

PairDistance(data, pair, domain) ==
  levenshteinDistance(Chars(DomainWithoutTld(domain)), Chars(KeywordOf(data, pair)))

\* the pairs that qualify for a domain: the keyword is not a substring of
\* the domain without its TLD, the distance is at most 3 and the domain is
\* not a legitimate domain of the brand
QualifyingPairs(data, domain) ==
  {pair \in BrandKeywordPairs(data) :
     /\ ~Includes(DomainWithoutTld(domain), KeywordOf(data, pair))
     /\ PairDistance(data, pair, domain) <= 3
     /\ ~IsLegitimateDomain(data.brands[pair[1]], domain)}

PairBefore(p, q) == p[1] < q[1] \/ (p[1] = q[1] /\ p[2] <= q[2])

\* the first pair of least distance among the given pairs
ClosestPair(data, pairs, domain) ==
  CHOOSE p \in pairs :
    \A q \in pairs :
      \/ PairDistance(data, p, domain) < PairDistance(data, q, domain)
      \/ /\ PairDistance(data, p, domain) = PairDistance(data, q, domain)
         /\ PairBefore(p, q)

QualifyingTable ==
  [d \in BrandDataStates \ {Null}, h \in TypoDomainInputs \ {""} |->
     QualifyingPairs(d, h)]

ClosestTable ==
  [d \in BrandDataStates \ {Null}, h \in TypoDomainInputs \ {""} |->
     IF QualifyingTable[d, h] = {} THEN <<0, 0, 0>>
     ELSE <<ClosestPair(d, QualifyingTable[d, h], h)[1],
            ClosestPair(d, QualifyingTable[d, h], h)[2],
            PairDistance(d, ClosestPair(d, QualifyingTable[d, h], h), h)>>]

TypoRule(data, closest, value) ==
  IF closest[1] = 0
  THEN value.isTyposquatting = FALSE /\ value.score = 0
  ELSE /\ value.isTyposquatting = TRUE
       /\ value.targetBrand = data.brands[closest[1]].name
       /\ value.matchedDomain = data.brands[closest[1]].keywords[closest[2]]
       /\ value.distance = closest[3]
       /\ value.score = (3 - closest[3] + 1) * 20

\* C21: with the brand database loaded, detectTyposquatting of a domain
\* returns the first pair of least edit distance among the (brand, keyword)
\* pairs whose keyword is not a substring of the domain without its TLD,
\* whose distance is at most 3 and for whose brand the domain is not
\* legitimate, with score (3 - d + 1) * 20; when no pair qualifies it
\* returns isTyposquatting false with score 0.
C21_ClosestQualifyingPair ==
  (pfOut.fn = "detectTyposquatting" /\ pfIn.data # Null /\ pfIn.domain # "")
    => TypoRule(pfIn.data, ClosestTable[pfIn.data, pfIn.domain], pfOut.value)

\* a domain was checked that is a legitimate domain of the brand whose
\* keyword is closest, and a farther keyword of another brand was returned
C21_Witness ==
  /\ pfOut.fn = "detectTyposquatting"
  /\ pfIn.data = BrandDatabaseWide
  /\ pfIn.domain = "paypa.com"
  /\ <<1, 1>> \notin QualifyingTable[pfIn.data, pfIn.domain]
  /\ pfOut.value.isTyposquatting
  /\ pfOut.value.targetBrand = "Payall"
  /\ pfOut.value.distance > 1


\* C22: with the reference data fixed, every call of a detector returns
\* what the first call with the same input returned, whatever calls were
\* made in between.
C22_DetectorsArePure ==
  pfOut # NoOutput => pfOut.value = firstCall[pfIn]


\* an entry of a cache older than the window, and one still within it
OlderThan(entry, window, time) == time - entry.timestamp > window
Within(entry, window, time) == time - entry.timestamp < window

\* the rule for one insertion: cache before, size after the insertion and
\* before the sweep, cache after the call
SweepRule(before, key, after, max, window, time) ==
  /\ Cardinality(DOMAIN before \cup {key}) > max
       => \A k \in DOMAIN after : ~OlderThan(after[k], window, time)
  /\ \A k \in DOMAIN before \ {key} :
       Within(before[k], window, time) => (k \in DOMAIN after /\ after[k] = before[k])
  /\ key \in DOMAIN after
  /\ Cardinality(DOMAIN before \cup {key}) <= max
       => \A k \in DOMAIN before \ {key} : k \in DOMAIN after /\ after[k] = before[k]

\* C23: an insertion that leaves the URL cache with more than 1000 entries
\* (page cache: more than 500) leaves no entry older than the expiry window
\* in that cache; an insertion never removes an entry that is within its
\* window, and removes nothing when the cache has at most 1000 (500)
\* entries after it.
C23_LazySweep ==
  [][/\ (analyzerCall'.op = "analyzeUrl" /\ analyzerCall'.serial # analyzerCall.serial
         /\ analyzerCall'.computed)
        => SweepRule(urlAnalysisCache, analyzerCall'.key, urlAnalysisCache',
                     1000, CACHE_EXPIRY_URL_ANALYSIS, now)
     /\ (analyzerCall'.op = "analyzePage" /\ analyzerCall'.serial # analyzerCall.serial
         /\ analyzerCall'.computed)
        => SweepRule(pageAnalysisCache, analyzerCall'.key, pageAnalysisCache',
                     500, CACHE_EXPIRY_PAGE_ANALYSIS, now)]_vars

\* the insertion of a URL's result made the cache exceed 1000 entries: the
\* entries stored at times 0 and 1 are gone, the entry that is exactly as
\* old as the window and the one stored just now are kept with the new one
C23_Witness ==
  /\ analyzerCall.op = "analyzeUrl" /\ analyzerCall.computed
  /\ FillerUrl(4) \notin DOMAIN urlAnalysisCache
  /\ FillerUrl(1) \notin DOMAIN urlAnalysisCache
  /\ FillerUrl(2) \in DOMAIN urlAnalysisCache
  /\ FillerUrl(3) \in DOMAIN urlAnalysisCache
  /\ analyzerCall.key \in DOMAIN urlAnalysisCache
  /\ Cardinality(DOMAIN urlAnalysisCache) > 500


\* C24: a counter that an entry point has increased is in storage after at
\* most ten calls of that entry point, the period analyzeUrlSecurity saves
\* with: neither entry point has made more than ten calls since it changed
\* a counter that storage does not hold.
C24_CountersPersistedPeriodically ==
  /\ unsavedCalls.url <= 10
  /\ unsavedCalls.page <= 10

\* the module state the detector of an input reads is not loaded, or only
\* in part
DataMissing(in) ==
  CASE in.fn = "detectHomograph" -> in.urlData.homoglyphMap = Null
    [] in.fn = "detectTyposquatting" -> in.data = Null
    [] in.fn = "assessTldRisk" -> in.urlData.tldRiskScores = Null
    [] in.fn = "checkMaliciousDomain" -> in.data = Null
    [] in.fn = "isTrackerDomain" ->
         in.privacy.trackerDomains = Null \/ in.privacy.privacySettings = Null
    [] in.fn \in {"checkDomainBlocklist", "analyzeUrlKeywords", "analyzePageContent"} ->
         in.content.adultKeywords = Null \/ in.content.contentFilterSettings = Null
    [] in.fn = "detectBrandImpersonation" -> in.phishing.brandDatabasePhishing = Null
    [] in.fn = "detectUrgencyLanguage" -> in.phishing.phishingPatterns = Null
    [] OTHER -> FALSE

\* the result of a detector that found nothing
NeutralResult(in) ==
  CASE in.fn = "detectHomograph" ->
         [hasHomograph |-> FALSE, homoglyphs |-> <<>>, normalizedDomain |-> in.domain,
          score |-> 0]
    [] in.fn = "detectTyposquatting" ->
         [isTyposquatting |-> FALSE, targetBrand |-> "null", distance |-> Infinity,
          matchedDomain |-> "null", priority |-> "undefined", score |-> 0]
    [] in.fn = "assessTldRisk" -> 0
    [] in.fn = "checkMaliciousDomain" ->
         [isMalicious |-> FALSE, type |-> "null", score |-> 0]
    [] in.fn = "isTrackerDomain" ->
         [isTracker |-> FALSE, categories |-> <<>>, shouldBlock |-> FALSE]
    [] in.fn = "checkDomainBlocklist" -> FALSE
    [] in.fn = "analyzeUrlKeywords" -> 0
    [] in.fn = "analyzePageContent" ->
         [matchedCategories |-> <<>>, score |-> 0, shouldBlock |-> FALSE]
    [] in.fn = "detectBrandImpersonation" -> [isImpersonating |-> FALSE, score |-> 0]
    [] in.fn = "detectUrgencyLanguage" ->
         [hasUrgencyLanguage |-> FALSE, matches |-> <<>>, score |-> 0]

\* C25: a detector called while the data it reads is not loaded returns its
\* neutral result with score 0; it does not throw.
C25_NeutralWithoutData ==
  (pfOut # NoOutput /\ DataMissing(pfIn)) => pfOut.value = NeutralResult(pfIn)

\* detectUrgencyLanguage was called without its patterns on a text that
\* scores with them
C25_Witness ==
  /\ pfOut.fn = "detectUrgencyLanguage"
  /\ pfIn.phishing = PhishingDataUnloaded
  /\ pfOut.value.score = 0
  /\ PureDetectorTable[[pfIn EXCEPT !.phishing = PhishingDataLoaded]].score > 0

\* category c has field f in the content settings
HasCategoryField(settings, c, f) == c \in DOMAIN settings /\ f \in DOMAIN settings[c]

\* the update names field f of content category c
NamesCategoryField(update, c, f) ==
  /\ "contentCategories" \in DOMAIN update
  /\ HasCategoryField(update.contentCategories, c, f)

\* the update names the privacy setting key, or the tracker category key
NamesPrivacySetting(update, key) ==
  "privacy" \in DOMAIN update /\ key \in DOMAIN update.privacy
NamesTrackerCategory(update, key) ==
  /\ NamesPrivacySetting(update, "trackerCategories")
  /\ key \in DOMAIN update.privacy.trackerCategories

\* field key is in both records with the same value, or in neither
SameField(before, after, key) ==
  /\ (key \in DOMAIN before) = (key \in DOMAIN after)
  /\ key \in DOMAIN before => before[key] = after[key]

CategoryFieldKept(before, after, c, f) ==
  /\ HasCategoryField(before, c, f) = HasCategoryField(after, c, f)
  /\ HasCategoryField(before, c, f) => before[c][f] = after[c][f]

TrackerCategoryKept(before, after, key) ==
  /\ ("trackerCategories" \in DOMAIN before) = ("trackerCategories" \in DOMAIN after)
  /\ "trackerCategories" \in DOMAIN before =>
       SameField(before.trackerCategories, after.trackerCategories, key)

\* C26: updateSecuritySettings changes only the settings the update names:
\* the enabled and strictness value of every content category, blockTrackers,
\* cleanUrls and every tracker category that the update does not mention
\* keep their value.
C26_OnlyNamedSettingsChange ==
  [][(calls' # calls /\ pfIn'.fn = "updateSecuritySettings") =>
       /\ \A c \in ContentCategories, f \in {"enabled", "strictness"} :
            ~NamesCategoryField(pfIn'.settings, c, f) =>
              CategoryFieldKept(contentData.contentFilterSettings,
                                contentData'.contentFilterSettings, c, f)
       /\ \A key \in {"blockTrackers", "cleanUrls"} :
            ~NamesPrivacySetting(pfIn'.settings, key) =>
              SameField(privacyData.privacySettings, privacyData'.privacySettings, key)
       /\ \A key \in {TrackerCategories[i] : i \in DOMAIN TrackerCategories} :
            ~NamesTrackerCategory(pfIn'.settings, key) =>
              TrackerCategoryKept(privacyData.privacySettings,
                                  privacyData'.privacySettings, key)]_vars

\* the scores analyzeUrl computes for a URL on the loaded reference data
LoadedScores(url) ==
  {UrlResultTable[UrlDataLoaded, url, lastIndex].threatScore : lastIndex \in LastIndexes}

\* C27: once the reference data is loaded, analyzeUrl(u) reflects it for
\* every u: what a call returns is a score the loaded data gives, never the
\* result computed and cached for u while the data was not loaded (100 for
\* a hostname on the malicious list).
C27_LoadedDataServed ==
  [][(calls' # calls /\ analyzerCall'.op = "analyzeUrl" /\ urlData = UrlDataLoaded) =>
       analyzerCall'.value.threatScore \in LoadedScores(analyzerCall'.key)]_vars

\* C28: while a content category is disabled in the settings, checkUrl
\* reports no URL as blocked for it, also not a URL that was found blocked
\* under the previous settings within the last minute.
C28_DisabledCategoryNotBlocked ==
  [][(calls' # calls /\ pfOut'.fn = "checkUrl") =>
       \A c \in ContentCategories :
         ~contentData.contentFilterSettings[c].enabled =>
           ~(/\ pfOut'.value.isBlocked
             /\ \E i \in 1..Len(pfOut'.value.categories) :
                  pfOut'.value.categories[i] = c)]_vars

\* C29: addToWhitelist(d) followed by removeFromWhitelist(d), for a string d
\* whose domain was not whitelisted before, leaves the whitelist as it was
\* before the add, and the domain is not whitelisted.
C29_RemoveUndoesAdd ==
  (/\ pfOut.fn = "removeFromWhitelist"
   /\ pfOut.domain = pfIn.domain
   /\ ~DomainWhitelisted(pfIn.before, pfIn.domain))
    => /\ securityWhitelist = pfIn.before
       /\ ~DomainWhitelisted(securityWhitelist, pfIn.domain)

\* C30: in a focus session at most maxAttempts wrong passwords are compared
\* with the session password or the master code, and failedUnlockAttempts
\* counts the rejected wrong passwords one by one, however the unlock
\* requests interleave at their awaits.
C30_AttemptsLimited ==
  sessionStore.passwordHash # Null =>
    /\ unlockLog.compared <= sessionStore.maxAttempts
    /\ sessionStore.failedUnlockAttempts = unlockLog.rejected
=============================================================================
